---------------------------- MODULE Spec2Model ----------------------------
(***************************************************************************)
(* Neural Load Ring firmware: the thermal driver (thermal_feature.c), the  *)
(* vibration driver (vibration_feature.c), the autonomous cue engine       *)
(* (cue_processor.c), the signature-feel player (signature_feel.c), the    *)
(* mapping of cues to signatures (cue_to_signature.c) and the actuator     *)
(* scheduler (actuator_controller.c), and of the sensing core the          *)
(* biometric estimator (biometric_algorithms.c) and the PPG peak detector  *)
(* with its RR ring buffer (wellness_processor.c).                         *)
(*                                                                         *)
(* Every module of the firmware keeps its state in one static struct; each *)
(* struct is a record-valued variable here and each C function is an       *)
(* operator from the record before the call to the record after it.        *)
(* Time is the millisecond counter of the main loop (main.c:238-260); it   *)
(* stays far below 2^32 within the bounds, so uint32_t differences never   *)
(* wrap.                                                                   *)
(***************************************************************************)
EXTENDS Integers, Sequences, FiniteSets, TLC

VARIABLES
    now,        \* main-loop clock: time handed to the most recent tick/generate
    th,         \* m_thermal   (thermal_feature.c:70-102)
    thObs,      \* observation of the thermal driver's run (history, see ThObsNext)
    cue,        \* s_state     (cue_processor.c:40-65)
    cueOut,     \* *output and the return value of the last cue_processor_generate
    cueObs,     \* observation of the cue engine's run (history, see CueObsInit)
    sig,        \* s_sig       (signature_feel.c:372-393)
    vib,        \* m_vib       (vibration_feature.c:81-89)
    sigObs,     \* operand and results of the last safety-clamp call (see SigObsInit)
    ctrl,       \* m_ctrl     (actuator_controller.c:29-37)
    ctrlObs,    \* command and return value of the last actuator_apply (see CtrlObsInit)
    bio,        \* s_manager.metrics, an hr_metrics_t (biometric_algorithms.h:8-21)
    bioObs,     \* argument and return value of the last biometrics_process_rr
    wp,         \* g_state and g_rr_buffer, g_rr_head, g_rr_tail, g_rr_count
                \* (wellness_processor.c:29-36)
    wpObs,      \* observation of the peak detector's run (history, see WpObsInit)
    lastOp,     \* name of the operation that produced the current state
    nCalls      \* number of API calls other than ticks made so far

vars == <<now, th, thObs, cue, cueOut, cueObs, sig, vib, sigObs, ctrl, ctrlObs,
          bio, bioObs, wp, wpObs, lastOp, nCalls>>
thVars == <<th, thObs>>
cueVars == <<cue, cueOut, cueObs>>
sigVars == <<sig, vib, sigObs>>
actVars == <<ctrl, ctrlObs>>
\* the modules that the drivers, the cue engine and the player never touch
bioVars == <<bio, bioObs>>
wpVars == <<wp, wpObs>>
restVars == <<actVars, bioVars, wpVars>>

Min(a, b) == IF a < b THEN a ELSE b
Max(a, b) == IF a > b THEN a ELSE b

(***************************************************************************)
(* THERMAL DRIVER                                                          *)
(***************************************************************************)
THERMAL_MAX_INTENSITY_PCT == 80
THERMAL_MAX_DURATION_S == 60
THERMAL_MAX_SKIN_TEMP_C == 42
THERMAL_COOLDOWN_S == 30
THERMAL_RAMP_TIME_MS == 2000
TEMP_CHECK_INTERVAL_MS == 500
RUNAWAY_RATE_C_PER_S == 2
CLEAR_FAULT_MARGIN_C == 5

\* thermal_step_t tables; a pattern id indexes PATTERNS, 0 and 1 have no steps.
THERMAL_PATTERN_PULSE ==
    << [duration_ms |-> 2000, intensity_pct |-> 100],
       [duration_ms |-> 2000, intensity_pct |-> 40],
       [duration_ms |-> 2000, intensity_pct |-> 100],
       [duration_ms |-> 2000, intensity_pct |-> 40],
       [duration_ms |-> 0, intensity_pct |-> 0] >>

THERMAL_PATTERN_WAVE ==
    << [duration_ms |-> 1000, intensity_pct |-> 20],
       [duration_ms |-> 1000, intensity_pct |-> 40],
       [duration_ms |-> 1000, intensity_pct |-> 60],
       [duration_ms |-> 1000, intensity_pct |-> 80],
       [duration_ms |-> 1000, intensity_pct |-> 100],
       [duration_ms |-> 1000, intensity_pct |-> 80],
       [duration_ms |-> 1000, intensity_pct |-> 60],
       [duration_ms |-> 1000, intensity_pct |-> 40],
       [duration_ms |-> 1000, intensity_pct |-> 20],
       [duration_ms |-> 0, intensity_pct |-> 0] >>

THERMAL_PATTERN_BURST ==
    << [duration_ms |-> 500, intensity_pct |-> 100],
       [duration_ms |-> 500, intensity_pct |-> 90],
       [duration_ms |-> 500, intensity_pct |-> 70],
       [duration_ms |-> 1000, intensity_pct |-> 50],
       [duration_ms |-> 1500, intensity_pct |-> 30],
       [duration_ms |-> 1000, intensity_pct |-> 10],
       [duration_ms |-> 0, intensity_pct |-> 0] >>

THERMAL_NUM_PATTERNS == 5

\* PATTERNS[pattern]; the C index i is i + 1 here.
ThermalSteps(pattern) ==
    CASE pattern = 2 -> THERMAL_PATTERN_PULSE
      [] pattern = 3 -> THERMAL_PATTERN_WAVE
      [] pattern = 4 -> THERMAL_PATTERN_BURST
      [] OTHER -> << >>

\* m_thermal as left by its static initializer (and by thermal_feature_init).
\* pattern_steps holds the id of the table it points to, 0 for NULL.
ThermalInitState ==
    [ state |-> "OFF", fault |-> "NONE", pattern |-> 0,
      target_intensity |-> 0, current_duty |-> 0, base_intensity |-> 0,
      start_ms |-> 0, end_ms |-> 0, ramp_start_ms |-> 0,
      last_temp_check_ms |-> 0, cooldown_end_ms |-> 0,
      pattern_steps |-> 0, step_index |-> 0, step_start_ms |-> 0,
      pattern_looping |-> FALSE,
      skin_temp_c |-> 25, prev_temp_c |-> 0, prev_temp_ms |-> 0 ]

thermal_feature_init(t) == ThermalInitState

thermal_feature_is_active(t) == t.state = "RAMPING" \/ t.state = "ACTIVE"

\* A ceiling test written > instead of >=.
check_temperature_safe_Mut(t) == t.skin_temp_c <= THERMAL_MAX_SKIN_TEMP_C

\* check_temperature_safe: the boolean it returns (the fault code it stores on
\* failure is written by the callers below, which all pass it to enter_fault).
check_temperature_safe(t) == t.skin_temp_c < THERMAL_MAX_SKIN_TEMP_C

\* check_runaway: the boolean it returns ...
check_runaway_ok(t, now_ms) ==
    IF t.prev_temp_ms = 0 THEN TRUE
    ELSE IF now_ms - t.prev_temp_ms >= 1000
         THEN ~(t.skin_temp_c - t.prev_temp_c > RUNAWAY_RATE_C_PER_S)
         ELSE TRUE

\* ... and the state it leaves behind.
check_runaway_upd(t, now_ms) ==
    IF t.prev_temp_ms = 0
    THEN [t EXCEPT !.prev_temp_c = t.skin_temp_c, !.prev_temp_ms = now_ms]
    ELSE IF now_ms - t.prev_temp_ms >= 1000
         THEN IF t.skin_temp_c - t.prev_temp_c > RUNAWAY_RATE_C_PER_S
              THEN [t EXCEPT !.fault = "RUNAWAY"]
              ELSE [t EXCEPT !.prev_temp_c = t.skin_temp_c, !.prev_temp_ms = now_ms]
         ELSE t

enter_fault(t, fault) ==
    [t EXCEPT !.fault = fault, !.state = "FAULT", !.current_duty = 0]

\* if (!check_temperature_safe() || !check_runaway(now_ms)) enter_fault(m_thermal.fault);
\* the || short-circuits: check_runaway is not called when the temperature is unsafe.
safety_checks(t, now_ms) ==
    IF ~check_temperature_safe(t)
    THEN enter_fault(t, "OVER_TEMP")
    ELSE IF ~check_runaway_ok(t, now_ms)
         THEN enter_fault(check_runaway_upd(t, now_ms), "RUNAWAY")
         ELSE check_runaway_upd(t, now_ms)

calculate_ramp_duty(t, now_ms) ==
    IF now_ms - t.ramp_start_ms >= THERMAL_RAMP_TIME_MS
    THEN t.target_intensity
    ELSE (t.target_intensity * (now_ms - t.ramp_start_ms)) \div THERMAL_RAMP_TIME_MS

thermal_feature_stop(t) ==
    LET z == [t EXCEPT !.target_intensity = 0, !.current_duty = 0, !.pattern_steps = 0]
    IN  IF t.state = "ACTIVE" \/ t.state = "RAMPING"
        THEN [z EXCEPT !.state = "COOLDOWN",
                       !.cooldown_end_ms = t.start_ms + THERMAL_COOLDOWN_S * 1000]
        ELSE [z EXCEPT !.state = "OFF"]

\* set_timed without the clamp of the requested intensity.
thermal_feature_set_timed_Mut(t, intensity_pct, duration_s) ==
    IF intensity_pct = 0 THEN thermal_feature_stop(t)
    ELSE IF t.state = "COOLDOWN" THEN t
    ELSE IF t.state = "FAULT" THEN t
    ELSE IF ~check_temperature_safe(t) THEN enter_fault(t, "OVER_TEMP")
    ELSE LET i == intensity_pct
             d == IF duration_s = 0 \/ duration_s > THERMAL_MAX_DURATION_S
                  THEN THERMAL_MAX_DURATION_S ELSE duration_s
         IN  [t EXCEPT !.target_intensity = i, !.base_intensity = i,
                       !.pattern = 1, !.pattern_steps = 0,
                       !.start_ms = 0, !.ramp_start_ms = 0,
                       !.end_ms = d * 1000,
                       !.state = "RAMPING", !.current_duty = 0]

thermal_feature_set_timed(t, intensity_pct, duration_s) ==
    IF intensity_pct = 0 THEN thermal_feature_stop(t)
    ELSE IF t.state = "COOLDOWN" THEN t
    ELSE IF t.state = "FAULT" THEN t
    ELSE IF ~check_temperature_safe(t) THEN enter_fault(t, "OVER_TEMP")
    ELSE LET i == Min(intensity_pct, THERMAL_MAX_INTENSITY_PCT)
             d == IF duration_s = 0 \/ duration_s > THERMAL_MAX_DURATION_S
                  THEN THERMAL_MAX_DURATION_S ELSE duration_s
         IN  [t EXCEPT !.target_intensity = i, !.base_intensity = i,
                       !.pattern = 1, !.pattern_steps = 0,
                       !.start_ms = 0, !.ramp_start_ms = 0,
                       !.end_ms = d * 1000,
                       !.state = "RAMPING", !.current_duty = 0]

thermal_feature_set(t, intensity_pct) == thermal_feature_set_timed(t, intensity_pct, 0)

thermal_feature_play(t, pattern, intensity_pct, duration_s) ==
    IF pattern >= THERMAL_NUM_PATTERNS \/ pattern = 0 THEN thermal_feature_stop(t)
    ELSE IF pattern = 1 THEN thermal_feature_set_timed(t, intensity_pct, duration_s)
    ELSE [thermal_feature_set_timed(t, intensity_pct, duration_s) EXCEPT
              !.pattern = pattern, !.pattern_steps = pattern,
              !.step_index = 0, !.step_start_ms = 0, !.pattern_looping = TRUE]

\* process_pattern; step_index is the C index, Sequences count from 1.
process_pattern(t, now_ms) ==
    IF t.pattern_steps = 0 THEN t
    ELSE LET steps == ThermalSteps(t.pattern_steps)
             t1 == IF t.step_start_ms = 0 THEN [t EXCEPT !.step_start_ms = now_ms] ELSE t
             step == steps[t1.step_index + 1]
         IN  IF now_ms - t1.step_start_ms >= step.duration_ms
             THEN LET t2 == [t1 EXCEPT !.step_index = t1.step_index + 1,
                                       !.step_start_ms = now_ms]
                      nxt == steps[t2.step_index + 1]
                      atEnd == nxt.duration_ms = 0 /\ nxt.intensity_pct = 0
                  IN  IF atEnd /\ ~t2.pattern_looping
                      THEN thermal_feature_stop(t2)
                      ELSE LET t3 == IF atEnd THEN [t2 EXCEPT !.step_index = 0] ELSE t2
                               n3 == steps[t3.step_index + 1]
                           IN  [t3 EXCEPT !.target_intensity =
                                    (n3.intensity_pct * t3.base_intensity) \div 100]
             ELSE t1

thermal_feature_tick(t, now_ms) ==
    LET t0 == IF t.state = "RAMPING" /\ t.start_ms = 0
              THEN [t EXCEPT !.start_ms = now_ms, !.ramp_start_ms = now_ms,
                             !.end_ms = now_ms + t.end_ms]
              ELSE t
    IN  CASE t0.state = "OFF" -> t0
          [] t0.state = "RAMPING" ->
               LET r1 == [t0 EXCEPT !.current_duty = calculate_ramp_duty(t0, now_ms)]
                   r2 == IF now_ms >= r1.ramp_start_ms + THERMAL_RAMP_TIME_MS
                         THEN [r1 EXCEPT !.state = "ACTIVE"] ELSE r1
               IN  safety_checks(r2, now_ms)
          [] t0.state = "ACTIVE" ->
               LET a1 == process_pattern(t0, now_ms)
                   a2 == [a1 EXCEPT !.current_duty = a1.target_intensity]
               IN  IF now_ms >= a2.end_ms
                   THEN thermal_feature_stop([a2 EXCEPT !.fault = "TIMEOUT"])
                   ELSE IF now_ms - a2.last_temp_check_ms >= TEMP_CHECK_INTERVAL_MS
                        THEN safety_checks([a2 EXCEPT !.last_temp_check_ms = now_ms], now_ms)
                        ELSE a2
          [] t0.state = "COOLDOWN" ->
               IF now_ms >= t0.cooldown_end_ms THEN [t0 EXCEPT !.state = "OFF"] ELSE t0
          [] t0.state = "FAULT" -> t0

thermal_feature_update_skin_temp(t, temp_c) == [t EXCEPT !.skin_temp_c = temp_c]

\* clear_fault without the 5 C margin below the ceiling.
thermal_feature_clear_fault_Mut(t) ==
    IF t.state = "FAULT" /\ t.skin_temp_c < THERMAL_MAX_SKIN_TEMP_C
    THEN [t EXCEPT !.fault = "NONE", !.state = "OFF", !.prev_temp_ms = 0]
    ELSE t

thermal_feature_clear_fault(t) ==
    IF t.state = "FAULT" /\ t.skin_temp_c < THERMAL_MAX_SKIN_TEMP_C - CLEAR_FAULT_MARGIN_C
    THEN [t EXCEPT !.fault = "NONE", !.state = "OFF", !.prev_temp_ms = 0]
    ELSE t


(***************************************************************************)
(* Thermal driver: operations as actions                                   *)
(***************************************************************************)
MaxNowTh == 3000                  \* the thermal runs stop ticking past this time
MaxCalls == 4                     \* API calls other than ticks in one run
ThTickSteps == {0, 500, 1000}
ThIntensities == {0, 200}
ThDurations == {0, 1}
ThPatterns == {2, 7}
SkinTemps == {36, 37, 42}

\* What the claims observe about a run and the code does not store:
\*   pre_state  the driver state before the last operation
\*   hot_since  since when the skin reading has been at or above the ceiling (-1: it is not)
\*   sess_end   when the last Ramping/Active session ended into Cooldown (-1: none yet)
\*   run_since  first tick of the current unbroken Ramping/Active stretch (-1: none)
\*   arg_i      the intensity argument of the last call (0 when it takes none)
\*   first_tick when the session started by the last accepted set, set_timed or
\*              play was first ticked (-1: not yet, or no session)
ThObsInit ==
    [pre_state |-> "OFF", hot_since |-> -1, sess_end |-> -1, run_since |-> -1, arg_i |-> 0,
     first_tick |-> -1]

ThObsNext(o, op, arg, t, t2, now2) ==
    [ pre_state |-> t.state,
      arg_i |-> arg,
      hot_since |-> IF t2.skin_temp_c >= THERMAL_MAX_SKIN_TEMP_C
                    THEN (IF t.skin_temp_c >= THERMAL_MAX_SKIN_TEMP_C
                          THEN o.hot_since ELSE now2)
                    ELSE -1,
      sess_end  |-> IF thermal_feature_is_active(t) /\ t2.state = "COOLDOWN"
                    THEN now2 ELSE o.sess_end,
      run_since |-> IF ~thermal_feature_is_active(t2) THEN -1
                    ELSE IF o.run_since = -1 /\ op = "tick" THEN now2
                    ELSE o.run_since,
      first_tick |-> IF ~thermal_feature_is_active(t2) THEN -1
                     ELSE IF op \in {"set", "set_timed", "play"} THEN -1
                     ELSE IF o.first_tick = -1 /\ op = "tick" THEN now2
                     ELSE o.first_tick ]

\* A call of the thermal API other than tick: the clock does not move.
ThCall(op, arg, t2) ==
    /\ nCalls < MaxCalls
    /\ nCalls' = nCalls + 1
    /\ th' = t2
    /\ thObs' = ThObsNext(thObs, op, arg, th, t2, now)
    /\ lastOp' = op
    /\ now' = now
    /\ UNCHANGED <<cueVars, sigVars, restVars>>

ThSet == \E i \in ThIntensities : ThCall("set", i, thermal_feature_set(th, i))

ThSetTimed ==
    \E i \in ThIntensities, d \in ThDurations :
        ThCall("set_timed", i, thermal_feature_set_timed(th, i, d))

ThPlay ==
    \E p \in ThPatterns, i \in ThIntensities, d \in ThDurations :
        ThCall("play", i, thermal_feature_play(th, p, i, d))

ThStop == ThCall("stop", 0, thermal_feature_stop(th))

ThUpdateSkinTemp ==
    \E c \in SkinTemps : ThCall("update_skin_temp", 0, thermal_feature_update_skin_temp(th, c))

ThClearFault == ThCall("clear_fault", 0, thermal_feature_clear_fault(th))

\* The main loop advances its clock and ticks the driver (main.c:254-260,
\* where actuator_tick and thermal_feature_tick both tick it at the same time).
ThTick ==
    \E d \in ThTickSteps :
        /\ now + d <= MaxNowTh
        /\ now' = now + d
        /\ th' = thermal_feature_tick(th, now + d)
        /\ thObs' = ThObsNext(thObs, "tick", 0, th, th', now + d)
        /\ lastOp' = "tick"
        /\ nCalls' = nCalls
        /\ UNCHANGED <<cueVars, sigVars, restVars>>

\* Runs with every pattern id and intensities up to the largest uint8_t, long
\* enough for a pattern to leave its first step.
MaxNowHeat == 5000
HeatTickSteps == {1000}
HeatPatterns == {0, 1, 2, 3, 4, 5}
HeatIntensities == {0, 255}

HeatPlay ==
    \E p \in HeatPatterns, i \in HeatIntensities :
        ThCall("play", i, thermal_feature_play(th, p, i, 0))

HeatTick ==
    \E d \in HeatTickSteps :
        /\ now + d <= MaxNowHeat
        /\ now' = now + d
        /\ th' = thermal_feature_tick(th, now + d)
        /\ thObs' = ThObsNext(thObs, "tick", 0, th, th', now + d)
        /\ lastOp' = "tick"
        /\ nCalls' = nCalls
        /\ UNCHANGED <<cueVars, sigVars, restVars>>

\* Runs long enough for a second session after the cooldown of the first,
\* with skin readings 3 C apart and below the ceiling.  The main loop ticks
\* without pause; while no session runs a tick only ends the cooldown, so an
\* idle stretch is taken in one step, and a session is followed for its
\* first MaxRunSession ms.
MaxNowRun == 33000
MaxRunSession == 3000
RunTickSteps == {1000}
RunIdleSteps == {30000}
RunSkinTemps == {36, 39}

RunUpdateSkinTemp ==
    \E c \in RunSkinTemps :
        ThCall("update_skin_temp", 0, thermal_feature_update_skin_temp(th, c))

RunTick ==
    \E d \in (IF thermal_feature_is_active(th) THEN RunTickSteps ELSE RunIdleSteps) :
        /\ now + d <= MaxNowRun
        /\ thObs.run_since # -1 => now + d <= thObs.run_since + MaxRunSession
        /\ now' = now + d
        /\ th' = thermal_feature_tick(th, now + d)
        /\ thObs' = ThObsNext(thObs, "tick", 0, th, th', now + d)
        /\ lastOp' = "tick"
        /\ nCalls' = nCalls
        /\ UNCHANGED <<cueVars, sigVars, restVars>>

(***************************************************************************)
(* CUE ENGINE                                                              *)
(***************************************************************************)
CUE_MIN_CONFIDENCE == 60
CUE_MICROVAR_ELEVATED == 500
CUE_MICROVAR_HIGH == 800
CUE_MICROVAR_CRITICAL == 1200
CUE_COHERENCE_MEDIUM == 50
CUE_COHERENCE_LOW == 30
CUE_COHERENCE_CRITICAL == 15
CUE_STABILITY_UNSTABLE == 40
CUE_COOLDOWN_VIBRATION_MS == 30000
CUE_COOLDOWN_THERMAL_MS == 120000
CUE_COOLDOWN_COMBINED_MS == 180000
CUE_COOLDOWN_ALERT_MS == 600000
CUE_MAX_PER_HOUR == 12
CUE_HOUR_MS == 3600000
CUE_HISTORY_SIZE == 8
CUE_MAX_ARTIFACT_PCT == 25
CHECK_FIT_STREAK == 3
CHECK_FIT_INTENSITY == 20

VIB_PATTERN_OFF == 0
VIB_PATTERN_SINGLE == 1
VIB_PATTERN_DOUBLE == 2
VIB_PATTERN_TRIPLE == 3
VIB_PATTERN_HEARTBEAT == 4
VIB_PATTERN_BREATHING == 5
VIB_PATTERN_ALERT == 6

\* Assignment to a uint8_t / uint16_t.
u8(x) == x % 256
u16(x) == x % 65536

\* PROFILES[sensitivity].  The table has three rows; an index past its end
\* reads whatever the build placed behind the table, which cueObs.oob stands
\* for (see OobProfiles).
PROFILES(sensitivity) ==
    CASE sensitivity = 0 ->
           [thermal_base |-> 25, thermal_max |-> 50, vib_base |-> 15, vib_max |-> 40,
            duration_mult |-> 7]
      [] sensitivity = 1 ->
           [thermal_base |-> 35, thermal_max |-> 70, vib_base |-> 30, vib_max |-> 60,
            duration_mult |-> 10]
      [] sensitivity = 2 ->
           [thermal_base |-> 45, thermal_max |-> 85, vib_base |-> 45, vib_max |-> 80,
            duration_mult |-> 13]
      [] OTHER -> cueObs.oob

DefaultPrefs ==
    [ enabled |-> TRUE, max_thermal_pct |-> 80, max_vib_pct |-> 70,
      quiet_start_hour |-> 22, quiet_end_hour |-> 7, sensitivity |-> 1,
      breathing_enabled |-> TRUE, thermal_enabled |-> TRUE, vibration_enabled |-> TRUE ]

\* s_state after cue_processor_init.
cue_processor_init ==
    [ prefs |-> DefaultPrefs,
      last_cue_ms |-> 0, last_cue_type |-> "NONE", current_hour |-> 12,
      hour_start_ms |-> 0, cues_this_hour |-> 0, consecutive_low_conf |-> 0,
      coherence_history |-> [i \in 1..CUE_HISTORY_SIZE |-> 0],
      history_idx |-> 0, history_count |-> 0,
      total_generated |-> 0, total_suppressed |-> 0, initialized |-> TRUE ]

clamp_intensity(value, max) == IF value > max THEN max ELSE value

\* The overnight branch left out.
is_quiet_hours_Mut(c) ==
    c.current_hour >= c.prefs.quiet_start_hour /\ c.current_hour < c.prefs.quiet_end_hour

is_quiet_hours(c) ==
    LET hour == c.current_hour
        start == c.prefs.quiet_start_hour
        end == c.prefs.quiet_end_hour
    IN  IF start > end
        THEN hour >= start \/ hour < end
        ELSE hour >= start /\ hour < end

\* The window restarted one count too late.
check_rate_limit_ok_Mut(c) == c.cues_this_hour <= CUE_MAX_PER_HOUR

\* check_rate_limit: the state it leaves behind ...
check_rate_limit_upd(c, now_ms) ==
    IF now_ms - c.hour_start_ms >= CUE_HOUR_MS
    THEN [c EXCEPT !.cues_this_hour = 0, !.hour_start_ms = now_ms]
    ELSE c

\* ... and the boolean it returns, read in that state.
check_rate_limit_ok(c) == c.cues_this_hour < CUE_MAX_PER_HOUR

\* A cooldown test that takes last_cue_ms = 0 for a time.
can_trigger_Mut(c, type, now_ms, cooldown) ==
    LET elapsed == now_ms - c.last_cue_ms
    IN  IF c.last_cue_type = type \/ c.last_cue_type = "COMBINED"
        THEN elapsed >= cooldown
        ELSE elapsed >= cooldown \div 2

\* A cooldown test that asks for the full cooldown after any cue.
can_trigger_full_Mut(c, type, now_ms, cooldown) ==
    c.last_cue_ms = 0 \/ now_ms - c.last_cue_ms >= cooldown

can_trigger(c, type, now_ms, cooldown) ==
    IF c.last_cue_ms = 0 THEN TRUE
    ELSE LET elapsed == now_ms - c.last_cue_ms
         IN  IF c.last_cue_type = type \/ c.last_cue_type = "COMBINED"
             THEN elapsed >= cooldown
             ELSE elapsed >= cooldown \div 2

record_cue(c, type, now_ms) ==
    [c EXCEPT !.last_cue_ms = now_ms, !.last_cue_type = type,
              !.cues_this_hour = u8(@ + 1), !.total_generated = @ + 1]

\* A suppression that is not counted.
suppress_cue_Mut(c) == c

suppress_cue(c) == [c EXCEPT !.total_suppressed = @ + 1]

update_history(c, coherence) ==
    [c EXCEPT !.coherence_history[c.history_idx + 1] = coherence,
              !.history_idx = (c.history_idx + 1) % CUE_HISTORY_SIZE,
              !.history_count = IF @ < CUE_HISTORY_SIZE THEN @ + 1 ELSE @]

RECURSIVE HistorySum(_, _, _, _)
\* sum of coherence_history[(read_idx + i) % SIZE] for i in from..(to - 1), as uint16_t
HistorySum(c, read_idx, from, to) ==
    IF from >= to THEN 0
    ELSE u16(c.coherence_history[((read_idx + from) % CUE_HISTORY_SIZE) + 1]
             + HistorySum(c, read_idx, from + 1, to))

detect_deteriorating_trend(c) ==
    IF c.history_count < 6 THEN FALSE
    ELSE LET half == c.history_count \div 2
             read_idx == (c.history_idx + CUE_HISTORY_SIZE - c.history_count)
                           % CUE_HISTORY_SIZE
             first_avg == u8(HistorySum(c, read_idx, 0, half) \div half)
             second_avg == u8(HistorySum(c, read_idx, half, c.history_count)
                                \div (c.history_count - half))
         IN  first_avg > second_avg /\ (first_avg - second_avg) > (first_avg \div 10)

build_no_cue ==
    [ type |-> "NONE", priority |-> "LOW", thermal_intensity |-> 0,
      thermal_duration_s |-> 0, vib_pattern |-> VIB_PATTERN_OFF, vib_intensity |-> 0,
      cooldown_ms |-> 0 ]

\* The cue builders: the cue written to *output and s_state after record_cue.
build_alert_cue(c, now_ms) ==
    LET p == PROFILES(c.prefs.sensitivity)
    IN  [ out |-> [ type |-> "ALERT", priority |-> "ALERT",
                    thermal_intensity |-> clamp_intensity(p.thermal_max, c.prefs.max_thermal_pct),
                    thermal_duration_s |-> u8((20 * p.duration_mult) \div 10),
                    vib_pattern |-> VIB_PATTERN_ALERT,
                    vib_intensity |-> clamp_intensity(p.vib_max, c.prefs.max_vib_pct),
                    cooldown_ms |-> CUE_COOLDOWN_ALERT_MS ],
          st |-> record_cue(c, "COMBINED", now_ms) ]

\* severity of a coherence deficit, 0..100, in the uint8_t arithmetic of the code
Severity(coherence_pct) ==
    LET deficit == u8(CUE_COHERENCE_MEDIUM - coherence_pct)
        max_deficit == CUE_COHERENCE_MEDIUM - CUE_COHERENCE_CRITICAL
        severity == u8((deficit * 100) \div max_deficit)
    IN  IF severity > 100 THEN 100 ELSE severity

build_combined_cue(c, input, now_ms) ==
    LET p == PROFILES(c.prefs.sensitivity)
        severity == Severity(input.coherence_pct)
        thermal_range == u8(p.thermal_max - p.thermal_base)
        vib_range == u8(p.vib_max - p.vib_base)
    IN  [ out |-> [ type |-> "COMBINED", priority |-> "HIGH",
                    thermal_intensity |->
                        clamp_intensity(u8(p.thermal_base + (thermal_range * severity) \div 100),
                                        c.prefs.max_thermal_pct),
                    thermal_duration_s |-> u8((15 * p.duration_mult) \div 10),
                    vib_pattern |-> VIB_PATTERN_HEARTBEAT,
                    vib_intensity |->
                        clamp_intensity(u8(p.vib_base + (vib_range * severity) \div 100),
                                        c.prefs.max_vib_pct),
                    cooldown_ms |-> CUE_COOLDOWN_COMBINED_MS ],
          st |-> record_cue(c, "COMBINED", now_ms) ]

build_breathing_cue(c, now_ms) ==
    LET p == PROFILES(c.prefs.sensitivity)
    IN  [ out |-> [ type |-> "BREATHING", priority |-> "NORMAL",
                    thermal_intensity |-> 0, thermal_duration_s |-> 0,
                    vib_pattern |-> VIB_PATTERN_BREATHING,
                    vib_intensity |->
                        clamp_intensity(u8((p.vib_base * 80) \div 100), c.prefs.max_vib_pct),
                    cooldown_ms |-> CUE_COOLDOWN_COMBINED_MS ],
          st |-> record_cue(c, "VIBRATION", now_ms) ]

build_vibration_cue(c, input, now_ms) ==
    LET p == PROFILES(c.prefs.sensitivity)
        high == input.micro_var_pct100 > CUE_MICROVAR_HIGH
        range == u16(input.micro_var_pct100 - CUE_MICROVAR_ELEVATED)
        max_range == CUE_MICROVAR_HIGH - CUE_MICROVAR_ELEVATED
        intensity == IF high THEN p.vib_max
                     ELSE u8(p.vib_base + ((p.vib_max - p.vib_base) * range) \div max_range)
    IN  [ out |-> [ type |-> "VIBRATION", priority |-> "NORMAL",
                    thermal_intensity |-> 0, thermal_duration_s |-> 0,
                    vib_pattern |-> IF high THEN VIB_PATTERN_DOUBLE ELSE VIB_PATTERN_SINGLE,
                    vib_intensity |-> clamp_intensity(intensity, c.prefs.max_vib_pct),
                    cooldown_ms |-> CUE_COOLDOWN_VIBRATION_MS ],
          st |-> record_cue(c, "VIBRATION", now_ms) ]

build_thermal_cue(c, input, now_ms) ==
    LET p == PROFILES(c.prefs.sensitivity)
        severity == Severity(input.coherence_pct)
        thermal_range == u8(p.thermal_max - p.thermal_base)
        intensity == u8(p.thermal_base + (thermal_range * severity) \div 100)
        duration == u8(10 + (10 * severity) \div 100)
    IN  [ out |-> [ type |-> "THERMAL", priority |-> "LOW",
                    thermal_intensity |-> clamp_intensity(intensity, c.prefs.max_thermal_pct),
                    thermal_duration_s |-> u8((duration * p.duration_mult) \div 10),
                    vib_pattern |-> VIB_PATTERN_OFF, vib_intensity |-> 0,
                    cooldown_ms |-> CUE_COOLDOWN_THERMAL_MS ],
          st |-> record_cue(c, "THERMAL", now_ms) ]

build_preventive_cue(c, now_ms) ==
    LET p == PROFILES(c.prefs.sensitivity)
    IN  [ out |-> [ type |-> "THERMAL", priority |-> "LOW",
                    thermal_intensity |-> clamp_intensity(p.thermal_base, c.prefs.max_thermal_pct),
                    thermal_duration_s |-> u8((8 * p.duration_mult) \div 10),
                    vib_pattern |-> VIB_PATTERN_OFF, vib_intensity |-> 0,
                    cooldown_ms |-> (CUE_COOLDOWN_THERMAL_MS * 3) \div 2 ],
          st |-> record_cue(c, "THERMAL", now_ms) ]

\* A CheckFit that leaves the low-confidence streak as it is.
build_check_fit_cue_Mut(c, now_ms) ==
    [ out |-> [ type |-> "CHECK_FIT", priority |-> "LOW",
                thermal_intensity |-> 0, thermal_duration_s |-> 0,
                vib_pattern |-> VIB_PATTERN_TRIPLE,
                vib_intensity |-> CHECK_FIT_INTENSITY,
                cooldown_ms |-> CUE_COOLDOWN_VIBRATION_MS * 3 ],
      st |-> record_cue(c, "VIBRATION", now_ms) ]

build_check_fit_cue(c, now_ms) ==
    [ out |-> [ type |-> "CHECK_FIT", priority |-> "LOW",
                thermal_intensity |-> 0, thermal_duration_s |-> 0,
                vib_pattern |-> VIB_PATTERN_TRIPLE,
                vib_intensity |-> CHECK_FIT_INTENSITY,
                cooldown_ms |-> CUE_COOLDOWN_VIBRATION_MS * 3 ],
      st |-> record_cue([c EXCEPT !.consecutive_low_conf = 0], "VIBRATION", now_ms) ]

\* The return paths of cue_processor_generate: the cue, the state, the return
\* value and the name of the gate or rule that decided.
Suppressed(c, gate) ==
    [out |-> build_no_cue, st |-> suppress_cue(c), ret |-> FALSE, gate |-> gate]

Triggered(built, gate) ==
    [out |-> built.out, st |-> built.st, ret |-> TRUE, gate |-> gate]

\* cue_processor_generate from the decision cascade on (s_state passed the gates).
decision_cascade(c, input, now_ms) ==
    IF /\ input.stress_level > 90 \/ input.micro_var_pct100 > CUE_MICROVAR_CRITICAL
       /\ can_trigger(c, "COMBINED", now_ms, CUE_COOLDOWN_COMBINED_MS)
    THEN Triggered(build_alert_cue(c, now_ms), "alert")
    ELSE IF /\ input.coherence_pct < CUE_COHERENCE_LOW
            /\ input.micro_var_pct100 > CUE_MICROVAR_ELEVATED
            /\ can_trigger(c, "COMBINED", now_ms, CUE_COOLDOWN_COMBINED_MS)
    THEN Triggered(build_combined_cue(c, input, now_ms), "combined")
    ELSE IF /\ input.stability_pct < CUE_STABILITY_UNSTABLE
            /\ c.prefs.breathing_enabled /\ c.prefs.vibration_enabled
            /\ can_trigger(c, "VIBRATION", now_ms, CUE_COOLDOWN_COMBINED_MS)
    THEN Triggered(build_breathing_cue(c, now_ms), "breathing")
    ELSE IF /\ input.micro_var_pct100 > CUE_MICROVAR_ELEVATED /\ c.prefs.vibration_enabled
            /\ can_trigger(c, "VIBRATION", now_ms, CUE_COOLDOWN_VIBRATION_MS)
    THEN Triggered(build_vibration_cue(c, input, now_ms), "vibration")
    ELSE IF /\ input.coherence_pct < CUE_COHERENCE_MEDIUM /\ c.prefs.thermal_enabled
            /\ can_trigger(c, "THERMAL", now_ms, CUE_COOLDOWN_THERMAL_MS)
    THEN Triggered(build_thermal_cue(c, input, now_ms), "thermal")
    ELSE IF /\ detect_deteriorating_trend(c) /\ c.prefs.thermal_enabled
            /\ can_trigger(c, "THERMAL", now_ms, CUE_COOLDOWN_THERMAL_MS * 2)
    THEN Triggered(build_preventive_cue(c, now_ms), "preventive")
    ELSE [out |-> build_no_cue, st |-> c, ret |-> FALSE, gate |-> "none"]

cue_processor_generate(c, input) ==
    LET now_ms == input.timestamp_ms
        c1 == check_rate_limit_upd(c, now_ms)
        c2 == update_history(c1, input.coherence_pct)
        c3 == [c2 EXCEPT !.consecutive_low_conf = u8(@ + 1)]
        c4 == [c2 EXCEPT !.consecutive_low_conf = 0]
    IN  IF ~c.initialized
        THEN [out |-> build_no_cue, st |-> c, ret |-> FALSE, gate |-> "uninitialized"]
        ELSE IF ~c.prefs.enabled THEN Suppressed(c, "master")
        ELSE IF is_quiet_hours(c) THEN Suppressed(c, "quiet")
        ELSE IF ~check_rate_limit_ok(c1) THEN Suppressed(c1, "rate")
        ELSE IF input.confidence_pct < CUE_MIN_CONFIDENCE
             THEN IF /\ c3.consecutive_low_conf >= CHECK_FIT_STREAK
                     /\ c3.prefs.vibration_enabled
                     /\ can_trigger(c3, "VIBRATION", now_ms, CUE_COOLDOWN_VIBRATION_MS * 2)
                  THEN Triggered(build_check_fit_cue(c3, now_ms), "check_fit")
                  ELSE Suppressed(c3, "confidence")
        ELSE IF input.artifact_rate_pct > CUE_MAX_ARTIFACT_PCT THEN Suppressed(c4, "artifact")
        ELSE decision_cascade(c4, input, now_ms)

cue_processor_set_preferences(c, prefs) == [c EXCEPT !.prefs = prefs]

\* A reset that keeps the time and type of the last cue.
cue_processor_reset_Mut(c) ==
    [c EXCEPT !.consecutive_low_conf = 0,
              !.history_idx = 0, !.history_count = 0, !.cues_this_hour = 0,
              !.hour_start_ms = 0,
              !.coherence_history = [i \in 1..CUE_HISTORY_SIZE |-> 0]]

cue_processor_reset(c) ==
    [c EXCEPT !.last_cue_ms = 0, !.last_cue_type = "NONE", !.consecutive_low_conf = 0,
              !.history_idx = 0, !.history_count = 0, !.cues_this_hour = 0,
              !.hour_start_ms = 0,
              !.coherence_history = [i \in 1..CUE_HISTORY_SIZE |-> 0]]

cue_processor_set_hour(c, hour) ==
    IF hour < 24 THEN [c EXCEPT !.current_hour = hour] ELSE c

(***************************************************************************)
(* Cue engine: operations as actions                                       *)
(***************************************************************************)
MaxCueCalls == 4                  \* cue-engine API calls in one run
MaxNowRate == 3660000             \* the hourly-limit runs stop past this time
CueSteps == {60000, 240000}
RateSteps == {30000, 3240000}
CueHours == {14, 23, 24}

CueInput(mv, coh, stab, conf, stress, art) ==
    [ timestamp_ms |-> 0, micro_var_pct100 |-> mv, coherence_pct |-> coh,
      stability_pct |-> stab, confidence_pct |-> conf, stress_level |-> stress,
      artifact_rate_pct |-> art ]

InCalm == CueInput(100, 80, 80, 90, 10, 5)
InThermal == CueInput(300, 25, 80, 90, 30, 5)
InVibration == CueInput(600, 80, 80, 90, 30, 5)
InCombined == CueInput(600, 20, 80, 90, 50, 5)
InAlert == CueInput(1300, 12, 80, 90, 95, 5)
InLowConf == CueInput(300, 80, 80, 40, 30, 5)
NoInput == CueInput(-1, -1, -1, -1, -1, -1)

CueInputs == {InCalm, InThermal, InVibration, InCombined, InAlert, InLowConf}

PrefsSet ==
    { DefaultPrefs,
      [DefaultPrefs EXCEPT !.max_thermal_pct = 40, !.max_vib_pct = 30, !.sensitivity = 2,
                           !.quiet_start_hour = 0, !.quiet_end_hour = 0],
      [DefaultPrefs EXCEPT !.max_thermal_pct = 10, !.max_vib_pct = 10, !.sensitivity = 0],
      [DefaultPrefs EXCEPT !.quiet_start_hour = 9, !.quiet_end_hour = 17] }

\* What the claims observe about a run and the code does not store:
\*   gate        the return path of the last generate (Suppressed/Triggered above)
\*   input       the input of the last generate
\*   trig_input  the input of the last generate that triggered a cue, its
\*   trig_type   cue type and its timestamp trig_ms (-1: none since the last
\*               reset or change of preferences)
\*   times       timestamps of all triggered cues since the last reset, in order
\*   types       their types as written to the output, in the same order
\*   streak      number of consecutive low-confidence calls that reached the
\*               confidence gate since the last call that reached it with
\*               confidence >= 60, the last CheckFit or the last reset
\*   oob         the five bytes behind the PROFILES table, read as a row
CueObsInit ==
    [ gate |-> "init", input |-> NoInput, trig_input |-> NoInput, trig_type |-> "NONE",
      trig_ms |-> -1, times |-> << >>, types |-> << >>, streak |-> 0,
      oob |-> [thermal_base |-> 0, thermal_max |-> 0, vib_base |-> 0, vib_max |-> 0,
               duration_mult |-> 0] ]

\* the return paths of generate that come before the confidence gate
EarlyGates == {"uninitialized", "master", "quiet", "rate"}

CueOutInit == [ret |-> FALSE, out |-> build_no_cue]

\* cue_processor_generate called with the clock's time after d more milliseconds.
GenerateAt(d, inp) ==
    \E input \in {[inp EXCEPT !.timestamp_ms = now + d]} :
      \E r \in {cue_processor_generate(cue, input)} :
        /\ now' = now + d
        /\ cue' = r.st
        /\ cueOut' = [ret |-> r.ret, out |-> r.out]
        /\ cueObs' = [ gate |-> r.gate, input |-> input,
                       trig_input |-> IF r.ret THEN inp ELSE cueObs.trig_input,
                       trig_type |-> IF r.ret THEN r.out.type ELSE cueObs.trig_type,
                       trig_ms |-> IF r.ret THEN now + d ELSE cueObs.trig_ms,
                       times |-> IF r.ret THEN Append(cueObs.times, now + d)
                                 ELSE cueObs.times,
                       types |-> IF r.ret THEN Append(cueObs.types, r.out.type)
                                 ELSE cueObs.types,
                       streak |-> IF r.gate \in EarlyGates THEN cueObs.streak
                                  ELSE IF input.confidence_pct >= CUE_MIN_CONFIDENCE \/ r.ret
                                       THEN 0
                                  ELSE cueObs.streak + 1,
                       oob |-> cueObs.oob ]
        /\ lastOp' = "generate"
        /\ UNCHANGED <<thVars, sigVars, restVars>>

CueGenerate ==
    \E d \in CueSteps, inp \in CueInputs :
        /\ nCalls < MaxCueCalls
        /\ nCalls' = nCalls + 1
        /\ GenerateAt(d, inp)

\* A cue-engine call other than generate: the clock does not move.
CueCall(op, c2, obs2) ==
    /\ nCalls < MaxCueCalls
    /\ nCalls' = nCalls + 1
    /\ cue' = c2
    /\ cueObs' = obs2
    /\ lastOp' = op
    /\ UNCHANGED <<now, cueOut, thVars, sigVars, restVars>>

CueSetPreferences ==
    \E p \in PrefsSet :
        CueCall("set_preferences", cue_processor_set_preferences(cue, p),
                [cueObs EXCEPT !.trig_input = NoInput, !.trig_type = "NONE", !.trig_ms = -1])

CueSetHour ==
    \E h \in CueHours : CueCall("set_hour", cue_processor_set_hour(cue, h), cueObs)

CueReset ==
    CueCall("reset", cue_processor_reset(cue),
            [cueObs EXCEPT !.trig_input = NoInput, !.trig_type = "NONE", !.trig_ms = -1,
                           !.times = << >>, !.types = << >>,
                               !.streak = 0])

\* The engine asked again and again with an input that always qualifies.
CueGenerateHourly ==
    \E d \in RateSteps :
        /\ now + d <= MaxNowRate
        /\ nCalls' = nCalls
        /\ GenerateAt(d, InVibration)

\* The gates: a steady stream of qualifying inputs one vibration cooldown
\* apart, which fills the hourly window, and in between a few calls that
\* switch the engine off, move the clock into the quiet hours, reset the
\* engine, or ask it with another input a shorter time after the last call.
MaxGateCalls == 3
MaxNowGate == 450000
GateSteadySteps == {30000}
GateSteps == {10000}
GateInputs == {InLowConf, InAlert}
GatePrefs == {[DefaultPrefs EXCEPT !.enabled = FALSE]}
GateHours == {23}

GateGenerateSteady ==
    \E d \in GateSteadySteps :
        /\ now + d <= MaxNowGate
        /\ nCalls' = nCalls
        /\ GenerateAt(d, InVibration)

GateGenerate ==
    \E d \in GateSteps, inp \in GateInputs :
        /\ nCalls < MaxGateCalls
        /\ now + d <= MaxNowGate
        /\ nCalls' = nCalls + 1
        /\ GenerateAt(d, inp)

GateCall(op, c2, obs2) ==
    /\ nCalls < MaxGateCalls
    /\ nCalls' = nCalls + 1
    /\ cue' = c2
    /\ cueObs' = obs2
    /\ lastOp' = op
    /\ UNCHANGED <<now, cueOut, thVars, sigVars, restVars>>

GateSetPreferences ==
    \E p \in GatePrefs :
        /\ cue.prefs # p
        /\ GateCall("set_preferences", cue_processor_set_preferences(cue, p),
                    [cueObs EXCEPT !.trig_input = NoInput, !.trig_type = "NONE",
                                   !.trig_ms = -1])

GateSetHour ==
    \E h \in GateHours :
        /\ cue.current_hour # h
        /\ GateCall("set_hour", cue_processor_set_hour(cue, h), cueObs)

GateReset ==
    /\ lastOp # "reset"
    /\ GateCall("reset", cue_processor_reset(cue),
                [cueObs EXCEPT !.trig_input = NoInput, !.trig_type = "NONE", !.trig_ms = -1,
                               !.times = << >>, !.types = << >>,
                               !.streak = 0])

\* The engine under a host that changes the preferences: modalities switched
\* off, and values outside the documented ranges, which set_preferences
\* stores as they come.  With sensitivity 3 the builders read the row behind
\* the PROFILES table: five uint8_t of whatever the linker placed there,
\* drawn from OobProfiles when the preference is stored.
MaxEngCalls == 4
EngSteps == {10000, 60000}
EngInputs == {InThermal, InVibration, InCombined, InAlert, InLowConf}
OobProfiles ==
    { [thermal_base |-> 0, thermal_max |-> 0, vib_base |-> 0, vib_max |-> 0,
       duration_mult |-> 0],
      [thermal_base |-> 200, thermal_max |-> 100, vib_base |-> 90, vib_max |-> 255,
       duration_mult |-> 255] }
EngPrefs ==
    { [DefaultPrefs EXCEPT !.thermal_enabled = FALSE],
      [DefaultPrefs EXCEPT !.vibration_enabled = FALSE],
      [DefaultPrefs EXCEPT !.sensitivity = 3, !.quiet_start_hour = 25,
                           !.quiet_end_hour = 30, !.max_thermal_pct = 200,
                           !.max_vib_pct = 255] }

EngGenerate ==
    \E d \in EngSteps, inp \in EngInputs :
        /\ nCalls < MaxEngCalls
        /\ nCalls' = nCalls + 1
        /\ GenerateAt(d, inp)

EngCall(op, c2, obs2) ==
    /\ nCalls < MaxEngCalls
    /\ nCalls' = nCalls + 1
    /\ cue' = c2
    /\ cueObs' = obs2
    /\ lastOp' = op
    /\ UNCHANGED <<now, cueOut, thVars, sigVars, restVars>>

EngSetPreferences ==
    \E p \in EngPrefs :
      \E g \in IF p.sensitivity > 2 THEN OobProfiles ELSE {cueObs.oob} :
        /\ cue.prefs # p
        /\ EngCall("set_preferences", cue_processor_set_preferences(cue, p),
                   [cueObs EXCEPT !.trig_input = NoInput, !.trig_type = "NONE",
                                  !.trig_ms = -1, !.oob = g])

EngReset ==
    /\ lastOp # "reset"
    /\ EngCall("reset", cue_processor_reset(cue),
               [cueObs EXCEPT !.trig_input = NoInput, !.trig_type = "NONE", !.trig_ms = -1,
                              !.times = << >>, !.types = << >>,
                               !.streak = 0])

\* The first call after init or reset, with inputs at and next to every
\* threshold of the cascade, with the lowest confidence and the highest
\* artifact rate that pass the two gates before it.
MaxFirstCalls == 2
FirstSteps == {60000}
FirstInputs ==
    { CueInput(mv, coh, stab, CUE_MIN_CONFIDENCE, stress, CUE_MAX_ARTIFACT_PCT) :
        mv \in {CUE_MICROVAR_ELEVATED, CUE_MICROVAR_ELEVATED + 1,
                CUE_MICROVAR_CRITICAL, CUE_MICROVAR_CRITICAL + 1},
        coh \in {CUE_COHERENCE_LOW - 1, CUE_COHERENCE_LOW,
                 CUE_COHERENCE_MEDIUM - 1, CUE_COHERENCE_MEDIUM},
        stab \in {CUE_STABILITY_UNSTABLE - 1, CUE_STABILITY_UNSTABLE},
        stress \in {90, 91} }

FirstGenerate ==
    \E d \in FirstSteps, inp \in FirstInputs :
        /\ nCalls < MaxFirstCalls
        /\ nCalls' = nCalls + 1
        /\ GenerateAt(d, inp)

FirstReset ==
    /\ lastOp = "generate"
    /\ cue' = cue_processor_reset(cue)
    /\ cueObs' = [cueObs EXCEPT !.trig_input = NoInput, !.trig_type = "NONE",
                                !.trig_ms = -1, !.times = << >>, !.types = << >>,
                                !.streak = 0]
    /\ lastOp' = "reset"
    /\ UNCHANGED <<now, nCalls, cueOut, thVars, sigVars, restVars>>

\* Calls 15 s, a millisecond less, or 105 s apart, with inputs that qualify
\* for the Thermal, the Vibration or the Alert rule or for none.
MaxCoolCalls == 4
CoolSteps == {14999, 15000, 105000}
CoolInputs == {InCalm, InThermal, InVibration, InAlert}

CoolGenerate ==
    \E d \in CoolSteps, inp \in CoolInputs :
        /\ nCalls < MaxCoolCalls
        /\ nCalls' = nCalls + 1
        /\ GenerateAt(d, inp)

\* A call every minute with a calm input of coherence 80 or 55, which
\* matches no rule above the trend rule, and now and then one that
\* qualifies for the Thermal rule.
MaxTrendCalls == 2
MaxNowTrend == 600000
TrendSteps == {60000}
InDull == CueInput(100, 55, 80, 90, 10, 5)
TrendInputs == {InCalm, InDull}

TrendGenerate ==
    \E d \in TrendSteps, inp \in TrendInputs :
        /\ now + d <= MaxNowTrend
        /\ nCalls' = nCalls
        /\ GenerateAt(d, inp)

TrendGenerateThermal ==
    \E d \in TrendSteps :
        /\ now + d <= MaxNowTrend
        /\ nCalls < MaxTrendCalls
        /\ nCalls' = nCalls + 1
        /\ GenerateAt(d, InThermal)

(***************************************************************************)
(* VIBRATION DRIVER (constant-output part)                                 *)
(***************************************************************************)
\* m_vib as left by its static initializer; pattern 0 is NULL.
VibInitState ==
    [ pattern |-> 0, step_index |-> 0, base_intensity |-> 0, current_intensity |-> 0,
      step_start_ms |-> 0, active |-> FALSE, looping |-> FALSE ]

vibration_feature_stop(v) ==
    [v EXCEPT !.active = FALSE, !.pattern = 0, !.current_intensity = 0]

vibration_feature_on(v, intensity_pct) ==
    LET i == Min(intensity_pct, 100)
    IN  IF i = 0 THEN vibration_feature_stop(v)
        ELSE [v EXCEPT !.pattern = 0, !.active = TRUE,
                       !.base_intensity = i, !.current_intensity = i]

vibration_feature_off(v) == vibration_feature_stop(v)

\* pattern_step_t tables
VIB_STEPS_SINGLE ==
    << [duration_ms |-> 100, intensity_pct |-> 100], [duration_ms |-> 0, intensity_pct |-> 0] >>

VIB_STEPS_DOUBLE ==
    << [duration_ms |-> 100, intensity_pct |-> 100], [duration_ms |-> 100, intensity_pct |-> 0],
       [duration_ms |-> 100, intensity_pct |-> 100], [duration_ms |-> 0, intensity_pct |-> 0] >>

VIB_STEPS_TRIPLE ==
    << [duration_ms |-> 80, intensity_pct |-> 100], [duration_ms |-> 80, intensity_pct |-> 0],
       [duration_ms |-> 80, intensity_pct |-> 100], [duration_ms |-> 80, intensity_pct |-> 0],
       [duration_ms |-> 80, intensity_pct |-> 100], [duration_ms |-> 0, intensity_pct |-> 0] >>

VIB_STEPS_HEARTBEAT ==
    << [duration_ms |-> 80, intensity_pct |-> 100], [duration_ms |-> 60, intensity_pct |-> 0],
       [duration_ms |-> 100, intensity_pct |-> 80], [duration_ms |-> 760, intensity_pct |-> 0],
       [duration_ms |-> 80, intensity_pct |-> 100], [duration_ms |-> 60, intensity_pct |-> 0],
       [duration_ms |-> 100, intensity_pct |-> 80], [duration_ms |-> 760, intensity_pct |-> 0],
       [duration_ms |-> 80, intensity_pct |-> 100], [duration_ms |-> 60, intensity_pct |-> 0],
       [duration_ms |-> 100, intensity_pct |-> 80], [duration_ms |-> 0, intensity_pct |-> 0] >>

VIB_STEPS_BREATHING ==
    << [duration_ms |-> 500, intensity_pct |-> 20], [duration_ms |-> 500, intensity_pct |-> 35],
       [duration_ms |-> 500, intensity_pct |-> 50], [duration_ms |-> 500, intensity_pct |-> 65],
       [duration_ms |-> 500, intensity_pct |-> 80], [duration_ms |-> 500, intensity_pct |-> 90],
       [duration_ms |-> 500, intensity_pct |-> 95], [duration_ms |-> 500, intensity_pct |-> 100],
       [duration_ms |-> 600, intensity_pct |-> 90], [duration_ms |-> 600, intensity_pct |-> 75],
       [duration_ms |-> 600, intensity_pct |-> 60], [duration_ms |-> 600, intensity_pct |-> 45],
       [duration_ms |-> 600, intensity_pct |-> 30], [duration_ms |-> 600, intensity_pct |-> 20],
       [duration_ms |-> 600, intensity_pct |-> 10], [duration_ms |-> 600, intensity_pct |-> 5],
       [duration_ms |-> 400, intensity_pct |-> 0], [duration_ms |-> 0, intensity_pct |-> 0] >>

VIB_STEPS_ALERT ==
    << [duration_ms |-> 50, intensity_pct |-> 100], [duration_ms |-> 50, intensity_pct |-> 0],
       [duration_ms |-> 50, intensity_pct |-> 100], [duration_ms |-> 50, intensity_pct |-> 0],
       [duration_ms |-> 50, intensity_pct |-> 100], [duration_ms |-> 50, intensity_pct |-> 0],
       [duration_ms |-> 150, intensity_pct |-> 0], [duration_ms |-> 50, intensity_pct |-> 100],
       [duration_ms |-> 50, intensity_pct |-> 0], [duration_ms |-> 50, intensity_pct |-> 100],
       [duration_ms |-> 50, intensity_pct |-> 0], [duration_ms |-> 50, intensity_pct |-> 100],
       [duration_ms |-> 50, intensity_pct |-> 0], [duration_ms |-> 0, intensity_pct |-> 0] >>

VIB_NUM_PATTERNS == 7

\* PATTERNS[pattern]; m_vib.pattern holds the id of the table it points to.
VibSteps(pattern) ==
    CASE pattern = 1 -> VIB_STEPS_SINGLE
      [] pattern = 2 -> VIB_STEPS_DOUBLE
      [] pattern = 3 -> VIB_STEPS_TRIPLE
      [] pattern = 4 -> VIB_STEPS_HEARTBEAT
      [] pattern = 5 -> VIB_STEPS_BREATHING
      [] pattern = 6 -> VIB_STEPS_ALERT

vibration_feature_play(v, pattern, intensity_pct) ==
    IF pattern >= VIB_NUM_PATTERNS \/ pattern = 0 THEN vibration_feature_stop(v)
    ELSE [v EXCEPT !.pattern = pattern, !.step_index = 0,
                   !.base_intensity = Min(intensity_pct, 100),
                   !.step_start_ms = 0, !.active = TRUE,
                   !.looping = (pattern = VIB_PATTERN_BREATHING)]

vibration_feature_tick(v, now_ms) ==
    IF ~v.active \/ v.pattern = 0 THEN v
    ELSE LET steps == VibSteps(v.pattern)
             v1 == IF v.step_start_ms = 0
                   THEN [v EXCEPT !.step_start_ms = now_ms,
                                  !.current_intensity =
                                      u8((steps[v.step_index + 1].intensity_pct
                                          * v.base_intensity) \div 100)]
                   ELSE v
             step == steps[v1.step_index + 1]
         IN  IF now_ms - v1.step_start_ms >= step.duration_ms
             THEN LET v2 == [v1 EXCEPT !.step_index = v1.step_index + 1,
                                       !.step_start_ms = now_ms]
                      nxt == steps[v2.step_index + 1]
                      atEnd == nxt.duration_ms = 0 /\ nxt.intensity_pct = 0
                  IN  IF atEnd /\ ~v2.looping THEN vibration_feature_stop(v2)
                      ELSE LET v3 == IF atEnd THEN [v2 EXCEPT !.step_index = 0] ELSE v2
                           IN  [v3 EXCEPT !.current_intensity =
                                   u8((steps[v3.step_index + 1].intensity_pct
                                       * v3.base_intensity) \div 100)]
             ELSE v1

vibration_feature_is_active(v) == v.active

(***************************************************************************)
(* SIGNATURE-FEEL PLAYER                                                   *)
(***************************************************************************)
SIG_RAMP_DOWN_MS == 600
SIG_VIB_MAX_INTENSITY == 65
SIG_VIB_GENTLE == 35
SIG_VIB_MEDIUM == 50
SIG_THERMAL_MAX == 70
SIG_THERMAL_GENTLE == 40
SIG_THERMAL_MEDIUM == 55
SIG_PATTERN_NONE == 0
SIG_GROUNDING_PULSE == 1
SIG_ATTENTION_TAP == 2
SIG_PRESENCE_CHECK == 3
SIG_HEARTBEAT == 4
SIG_BREATHING_GUIDE == 5
SIG_WARM_EXHALE == 6
SIG_GROUNDING_WARMTH == 7
SIG_SAFETY_EMBRACE == 8
SIG_GENTLE_ALERT == 9
SIG_FULL_RESET == 10
SIG_PATTERN_COUNT == 11
SIG_THERMAL_DURATION_S == 60

(***************************************************************************)
(* Easing.  The code computes in float; here a progress t and an eased     *)
(* value are thousandths (0..1000), and sinf/cosf are Bhaskara's rational  *)
(* approximation, sin(x deg) ~ 4x(180-x) / (40500 - x(180-x)), which is    *)
(* exact at 0, 30, 90, 150 and 180 degrees, increasing on [0,90] and       *)
(* within 0.002 of the sine everywhere.  Angles are tenths of a degree; the *)
(* denominator is taken in thousands to keep the products within 32 bits.  *)
(***************************************************************************)
Sin1000(x) == (4 * x * (1800 - x)) \div ((4050000 - x * (1800 - x)) \div 1000)

\* cos of an angle in [0, 1800]
Cos1000(x) == IF x <= 900 THEN Sin1000(900 - x) ELSE 0 - Sin1000(x - 900)

EaseInOutSine(t) == (1000 - Cos1000((t * 1800) \div 1000)) \div 2

ease_calculate(curve, t) ==
    IF t <= 0 THEN 0
    ELSE IF t >= 1000 THEN 1000
    ELSE CASE curve = "EASE_LINEAR" -> t
           [] curve = "EASE_IN_SINE" -> 1000 - Cos1000((t * 900) \div 1000)
           [] curve = "EASE_OUT_SINE" -> Sin1000((t * 900) \div 1000)
           [] curve = "EASE_IN_OUT_SINE" -> EaseInOutSine(t)
           [] curve = "EASE_OUT_QUAD" -> 1000 - ((1000 - t) * (1000 - t)) \div 1000
           [] curve = "EASE_IN_QUAD" -> (t * t) \div 1000
           [] curve = "EASE_BREATH" ->
                IF t < 400 THEN EaseInOutSine((t * 10) \div 4)
                ELSE LET exhale_t == ((t - 400) * 10) \div 6
                     IN  1000 - (exhale_t * exhale_t) \div 1000
           [] OTHER -> t

\* from + (to - from) * eased, clamped to 0..100 and rounded to nearest
ease_intensity(from, to, curve, t) ==
    LET result == from * 1000 + (to - from) * ease_calculate(curve, t)
    IN  IF result < 0 THEN 0
        ELSE IF result > 100000 THEN 100
        ELSE (result + 500) \div 1000

\* sig_step_t tables
SIG_PATTERN_GROUNDING_PULSE ==
    << [duration_ms |-> 300, target_intensity |-> SIG_VIB_GENTLE, ease |-> "EASE_IN_SINE", is_vibration |-> TRUE],
       [duration_ms |-> 150, target_intensity |-> SIG_VIB_GENTLE, ease |-> "EASE_LINEAR", is_vibration |-> TRUE],
       [duration_ms |-> 450, target_intensity |-> 0, ease |-> "EASE_OUT_SINE", is_vibration |-> TRUE],
       [duration_ms |-> 0, target_intensity |-> 0, ease |-> "EASE_LINEAR", is_vibration |-> FALSE] >>

SIG_PATTERN_ATTENTION_TAP ==
    << [duration_ms |-> 200, target_intensity |-> SIG_VIB_GENTLE, ease |-> "EASE_IN_OUT_SINE", is_vibration |-> TRUE],
       [duration_ms |-> 100, target_intensity |-> SIG_VIB_GENTLE, ease |-> "EASE_LINEAR", is_vibration |-> TRUE],
       [duration_ms |-> 200, target_intensity |-> 0, ease |-> "EASE_OUT_SINE", is_vibration |-> TRUE],
       [duration_ms |-> 200, target_intensity |-> 0, ease |-> "EASE_LINEAR", is_vibration |-> TRUE],
       [duration_ms |-> 200, target_intensity |-> SIG_VIB_GENTLE, ease |-> "EASE_IN_OUT_SINE", is_vibration |-> TRUE],
       [duration_ms |-> 100, target_intensity |-> SIG_VIB_GENTLE, ease |-> "EASE_LINEAR", is_vibration |-> TRUE],
       [duration_ms |-> 300, target_intensity |-> 0, ease |-> "EASE_OUT_SINE", is_vibration |-> TRUE],
       [duration_ms |-> 0, target_intensity |-> 0, ease |-> "EASE_LINEAR", is_vibration |-> FALSE] >>

SIG_PATTERN_PRESENCE_CHECK ==
    << [duration_ms |-> 150, target_intensity |-> 25, ease |-> "EASE_IN_OUT_SINE", is_vibration |-> TRUE],
       [duration_ms |-> 150, target_intensity |-> 0, ease |-> "EASE_OUT_SINE", is_vibration |-> TRUE],
       [duration_ms |-> 120, target_intensity |-> 0, ease |-> "EASE_LINEAR", is_vibration |-> TRUE],
       [duration_ms |-> 150, target_intensity |-> 25, ease |-> "EASE_IN_OUT_SINE", is_vibration |-> TRUE],
       [duration_ms |-> 150, target_intensity |-> 0, ease |-> "EASE_OUT_SINE", is_vibration |-> TRUE],
       [duration_ms |-> 120, target_intensity |-> 0, ease |-> "EASE_LINEAR", is_vibration |-> TRUE],
       [duration_ms |-> 150, target_intensity |-> 25, ease |-> "EASE_IN_OUT_SINE", is_vibration |-> TRUE],
       [duration_ms |-> 250, target_intensity |-> 0, ease |-> "EASE_OUT_SINE", is_vibration |-> TRUE],
       [duration_ms |-> 0, target_intensity |-> 0, ease |-> "EASE_LINEAR", is_vibration |-> FALSE] >>

SIG_PATTERN_HEARTBEAT ==
    << [duration_ms |-> 120, target_intensity |-> SIG_VIB_MEDIUM, ease |-> "EASE_IN_SINE", is_vibration |-> TRUE],
       [duration_ms |-> 80, target_intensity |-> SIG_VIB_MEDIUM, ease |-> "EASE_LINEAR", is_vibration |-> TRUE],
       [duration_ms |-> 100, target_intensity |-> 15, ease |-> "EASE_OUT_QUAD", is_vibration |-> TRUE],
       [duration_ms |-> 100, target_intensity |-> SIG_VIB_GENTLE, ease |-> "EASE_IN_SINE", is_vibration |-> TRUE],
       [duration_ms |-> 80, target_intensity |-> SIG_VIB_GENTLE, ease |-> "EASE_LINEAR", is_vibration |-> TRUE],
       [duration_ms |-> 120, target_intensity |-> 0, ease |-> "EASE_OUT_SINE", is_vibration |-> TRUE],
       [duration_ms |-> 400, target_intensity |-> 0, ease |-> "EASE_LINEAR", is_vibration |-> TRUE],
       [duration_ms |-> 120, target_intensity |-> SIG_VIB_MEDIUM, ease |-> "EASE_IN_SINE", is_vibration |-> TRUE],
       [duration_ms |-> 80, target_intensity |-> SIG_VIB_MEDIUM, ease |-> "EASE_LINEAR", is_vibration |-> TRUE],
       [duration_ms |-> 100, target_intensity |-> 15, ease |-> "EASE_OUT_QUAD", is_vibration |-> TRUE],
       [duration_ms |-> 100, target_intensity |-> SIG_VIB_GENTLE, ease |-> "EASE_IN_SINE", is_vibration |-> TRUE],
       [duration_ms |-> 80, target_intensity |-> SIG_VIB_GENTLE, ease |-> "EASE_LINEAR", is_vibration |-> TRUE],
       [duration_ms |-> 120, target_intensity |-> 0, ease |-> "EASE_OUT_SINE", is_vibration |-> TRUE],
       [duration_ms |-> 400, target_intensity |-> 0, ease |-> "EASE_LINEAR", is_vibration |-> TRUE],
       [duration_ms |-> 120, target_intensity |-> SIG_VIB_MEDIUM, ease |-> "EASE_IN_SINE", is_vibration |-> TRUE],
       [duration_ms |-> 80, target_intensity |-> SIG_VIB_MEDIUM, ease |-> "EASE_LINEAR", is_vibration |-> TRUE],
       [duration_ms |-> 100, target_intensity |-> 15, ease |-> "EASE_OUT_QUAD", is_vibration |-> TRUE],
       [duration_ms |-> 100, target_intensity |-> SIG_VIB_GENTLE, ease |-> "EASE_IN_SINE", is_vibration |-> TRUE],
       [duration_ms |-> 80, target_intensity |-> SIG_VIB_GENTLE, ease |-> "EASE_LINEAR", is_vibration |-> TRUE],
       [duration_ms |-> 200, target_intensity |-> 0, ease |-> "EASE_OUT_SINE", is_vibration |-> TRUE],
       [duration_ms |-> 0, target_intensity |-> 0, ease |-> "EASE_LINEAR", is_vibration |-> FALSE] >>

SIG_PATTERN_BREATHING_GUIDE ==
    << [duration_ms |-> 4000, target_intensity |-> SIG_VIB_GENTLE, ease |-> "EASE_IN_OUT_SINE", is_vibration |-> TRUE],
       [duration_ms |-> 300, target_intensity |-> SIG_VIB_GENTLE, ease |-> "EASE_LINEAR", is_vibration |-> TRUE],
       [duration_ms |-> 6000, target_intensity |-> 8, ease |-> "EASE_OUT_QUAD", is_vibration |-> TRUE],
       [duration_ms |-> 500, target_intensity |-> 5, ease |-> "EASE_LINEAR", is_vibration |-> TRUE],
       [duration_ms |-> 0, target_intensity |-> 0, ease |-> "EASE_LINEAR", is_vibration |-> FALSE] >>

SIG_PATTERN_WARM_EXHALE ==
    << [duration_ms |-> 2000, target_intensity |-> SIG_THERMAL_GENTLE, ease |-> "EASE_IN_SINE", is_vibration |-> FALSE],
       [duration_ms |-> 3000, target_intensity |-> SIG_THERMAL_GENTLE, ease |-> "EASE_LINEAR", is_vibration |-> FALSE],
       [duration_ms |-> 4000, target_intensity |-> 15, ease |-> "EASE_OUT_SINE", is_vibration |-> FALSE],
       [duration_ms |-> 2000, target_intensity |-> 0, ease |-> "EASE_OUT_QUAD", is_vibration |-> FALSE],
       [duration_ms |-> 0, target_intensity |-> 0, ease |-> "EASE_LINEAR", is_vibration |-> FALSE] >>

SIG_PATTERN_GROUNDING_WARMTH ==
    << [duration_ms |-> 1500, target_intensity |-> SIG_THERMAL_GENTLE, ease |-> "EASE_IN_OUT_SINE", is_vibration |-> FALSE],
       [duration_ms |-> 5000, target_intensity |-> SIG_THERMAL_GENTLE, ease |-> "EASE_LINEAR", is_vibration |-> FALSE],
       [duration_ms |-> 3000, target_intensity |-> 0, ease |-> "EASE_OUT_SINE", is_vibration |-> FALSE],
       [duration_ms |-> 0, target_intensity |-> 0, ease |-> "EASE_LINEAR", is_vibration |-> FALSE] >>

SIG_PATTERN_SAFETY_EMBRACE ==
    << [duration_ms |-> 2000, target_intensity |-> SIG_THERMAL_MEDIUM, ease |-> "EASE_IN_SINE", is_vibration |-> FALSE],
       [duration_ms |-> 2500, target_intensity |-> SIG_THERMAL_MEDIUM, ease |-> "EASE_LINEAR", is_vibration |-> FALSE],
       [duration_ms |-> 1500, target_intensity |-> SIG_THERMAL_GENTLE, ease |-> "EASE_IN_OUT_SINE", is_vibration |-> FALSE],
       [duration_ms |-> 1500, target_intensity |-> SIG_THERMAL_MEDIUM, ease |-> "EASE_IN_OUT_SINE", is_vibration |-> FALSE],
       [duration_ms |-> 2000, target_intensity |-> SIG_THERMAL_GENTLE, ease |-> "EASE_IN_OUT_SINE", is_vibration |-> FALSE],
       [duration_ms |-> 4000, target_intensity |-> 0, ease |-> "EASE_OUT_QUAD", is_vibration |-> FALSE],
       [duration_ms |-> 0, target_intensity |-> 0, ease |-> "EASE_LINEAR", is_vibration |-> FALSE] >>

SIG_PATTERN_GENTLE_ALERT ==
    << [duration_ms |-> 500, target_intensity |-> SIG_THERMAL_GENTLE, ease |-> "EASE_IN_SINE", is_vibration |-> FALSE],
       [duration_ms |-> 250, target_intensity |-> SIG_VIB_GENTLE, ease |-> "EASE_IN_OUT_SINE", is_vibration |-> TRUE],
       [duration_ms |-> 350, target_intensity |-> 0, ease |-> "EASE_OUT_SINE", is_vibration |-> TRUE],
       [duration_ms |-> 1000, target_intensity |-> SIG_THERMAL_GENTLE, ease |-> "EASE_LINEAR", is_vibration |-> FALSE],
       [duration_ms |-> 1500, target_intensity |-> 0, ease |-> "EASE_OUT_SINE", is_vibration |-> FALSE],
       [duration_ms |-> 0, target_intensity |-> 0, ease |-> "EASE_LINEAR", is_vibration |-> FALSE] >>

SIG_PATTERN_FULL_RESET ==
    << [duration_ms |-> 1500, target_intensity |-> SIG_THERMAL_MEDIUM, ease |-> "EASE_IN_SINE", is_vibration |-> FALSE],
       [duration_ms |-> 120, target_intensity |-> SIG_VIB_MEDIUM, ease |-> "EASE_IN_SINE", is_vibration |-> TRUE],
       [duration_ms |-> 80, target_intensity |-> SIG_VIB_MEDIUM, ease |-> "EASE_LINEAR", is_vibration |-> TRUE],
       [duration_ms |-> 100, target_intensity |-> 15, ease |-> "EASE_OUT_QUAD", is_vibration |-> TRUE],
       [duration_ms |-> 100, target_intensity |-> SIG_VIB_GENTLE, ease |-> "EASE_IN_SINE", is_vibration |-> TRUE],
       [duration_ms |-> 80, target_intensity |-> SIG_VIB_GENTLE, ease |-> "EASE_LINEAR", is_vibration |-> TRUE],
       [duration_ms |-> 120, target_intensity |-> 0, ease |-> "EASE_OUT_SINE", is_vibration |-> TRUE],
       [duration_ms |-> 500, target_intensity |-> SIG_THERMAL_MEDIUM, ease |-> "EASE_LINEAR", is_vibration |-> FALSE],
       [duration_ms |-> 120, target_intensity |-> SIG_VIB_MEDIUM, ease |-> "EASE_IN_SINE", is_vibration |-> TRUE],
       [duration_ms |-> 80, target_intensity |-> SIG_VIB_MEDIUM, ease |-> "EASE_LINEAR", is_vibration |-> TRUE],
       [duration_ms |-> 100, target_intensity |-> 15, ease |-> "EASE_OUT_QUAD", is_vibration |-> TRUE],
       [duration_ms |-> 100, target_intensity |-> SIG_VIB_GENTLE, ease |-> "EASE_IN_SINE", is_vibration |-> TRUE],
       [duration_ms |-> 80, target_intensity |-> SIG_VIB_GENTLE, ease |-> "EASE_LINEAR", is_vibration |-> TRUE],
       [duration_ms |-> 120, target_intensity |-> 0, ease |-> "EASE_OUT_SINE", is_vibration |-> TRUE],
       [duration_ms |-> 2000, target_intensity |-> SIG_THERMAL_GENTLE, ease |-> "EASE_OUT_SINE", is_vibration |-> FALSE],
       [duration_ms |-> 4000, target_intensity |-> SIG_VIB_GENTLE, ease |-> "EASE_IN_OUT_SINE", is_vibration |-> TRUE],
       [duration_ms |-> 6000, target_intensity |-> 8, ease |-> "EASE_OUT_QUAD", is_vibration |-> TRUE],
       [duration_ms |-> 2000, target_intensity |-> 0, ease |-> "EASE_OUT_SINE", is_vibration |-> FALSE],
       [duration_ms |-> 500, target_intensity |-> 0, ease |-> "EASE_LINEAR", is_vibration |-> TRUE],
       [duration_ms |-> 0, target_intensity |-> 0, ease |-> "EASE_LINEAR", is_vibration |-> FALSE] >>

\* PATTERNS[pattern]
SigSteps(pattern) ==
    CASE pattern = 1 -> SIG_PATTERN_GROUNDING_PULSE
      [] pattern = 2 -> SIG_PATTERN_ATTENTION_TAP
      [] pattern = 3 -> SIG_PATTERN_PRESENCE_CHECK
      [] pattern = 4 -> SIG_PATTERN_HEARTBEAT
      [] pattern = 5 -> SIG_PATTERN_BREATHING_GUIDE
      [] pattern = 6 -> SIG_PATTERN_WARM_EXHALE
      [] pattern = 7 -> SIG_PATTERN_GROUNDING_WARMTH
      [] pattern = 8 -> SIG_PATTERN_SAFETY_EMBRACE
      [] pattern = 9 -> SIG_PATTERN_GENTLE_ALERT
      [] pattern = 10 -> SIG_PATTERN_FULL_RESET
      [] OTHER -> << >>

\* A table in which every pattern loops.
PATTERN_LOOPS_Mut(pattern) == TRUE

PATTERN_LOOPS(pattern) == pattern = SIG_BREATHING_GUIDE

\* s_sig as left by its static initializer; steps holds the id of the table it
\* points to, 0 for NULL.
SigInitState ==
    [ current_pattern |-> SIG_PATTERN_NONE, steps |-> 0, step_index |-> 0,
      intensity_scale |-> 0, step_start_ms |-> 0, step_from_intensity |-> 0,
      vib_output |-> 0, thermal_output |-> 0,
      fading_out |-> FALSE, fade_start_ms |-> 0, fade_from_vib |-> 0,
      fade_from_thermal |-> 0, initialized |-> FALSE ]

\* A clamp that passes every request through.
signature_safe_vibration_Mut(requested) == requested

signature_safe_vibration(requested) ==
    IF requested > SIG_VIB_MAX_INTENSITY THEN SIG_VIB_MAX_INTENSITY ELSE requested

signature_safe_thermal(requested) ==
    IF requested > SIG_THERMAL_MAX THEN SIG_THERMAL_MAX ELSE requested

\* The player writes to both drivers: its functions take and return
\* w = [sig |-> s_sig, th |-> m_thermal, vib |-> m_vib].
set_vibration(w, intensity) ==
    IF intensity # w.sig.vib_output
    THEN [w EXCEPT !.sig.vib_output = intensity,
                   !.vib = IF intensity = 0 THEN vibration_feature_off(w.vib)
                           ELSE vibration_feature_on(w.vib, intensity)]
    ELSE w

set_thermal(w, intensity) ==
    IF intensity # w.sig.thermal_output
    THEN [w EXCEPT !.sig.thermal_output = intensity,
                   !.th = IF intensity = 0 THEN thermal_feature_stop(w.th)
                          ELSE thermal_feature_set_timed(w.th, intensity,
                                                         SIG_THERMAL_DURATION_S)]
    ELSE w

signature_init(w) == [w EXCEPT !.sig = [SigInitState EXCEPT !.initialized = TRUE]]

signature_stop(w) ==
    IF w.sig.current_pattern = SIG_PATTERN_NONE THEN w
    ELSE [w EXCEPT !.sig.fading_out = TRUE, !.sig.fade_start_ms = 0,
                   !.sig.fade_from_vib = w.sig.vib_output,
                   !.sig.fade_from_thermal = w.sig.thermal_output]

\* A stop_immediate that leaves the pattern in place.
signature_stop_immediate_Mut(w) ==
    [set_thermal(set_vibration(w, 0), 0) EXCEPT !.sig.fading_out = FALSE]

signature_stop_immediate(w) ==
    [set_thermal(set_vibration(w, 0), 0) EXCEPT
        !.sig.current_pattern = SIG_PATTERN_NONE, !.sig.steps = 0, !.sig.fading_out = FALSE]

signature_play(w, pattern, intensity_scale) ==
    LET w0 == IF ~w.sig.initialized THEN signature_init(w) ELSE w
    IN  IF pattern >= SIG_PATTERN_COUNT \/ pattern = SIG_PATTERN_NONE
        THEN signature_stop(w0)
        ELSE [set_thermal(set_vibration(w0, 0), 0) EXCEPT
                 !.sig.current_pattern = pattern, !.sig.steps = pattern,
                 !.sig.step_index = 0,
                 !.sig.intensity_scale = IF intensity_scale > 100 THEN 100
                                         ELSE intensity_scale,
                 !.sig.step_start_ms = 0, !.sig.step_from_intensity = 0,
                 !.sig.fading_out = FALSE]

\* signature_tick while fading out
fade_tick(w, now_ms) ==
    LET w1 == IF w.sig.fade_start_ms = 0 THEN [w EXCEPT !.sig.fade_start_ms = now_ms] ELSE w
        elapsed == now_ms - w1.sig.fade_start_ms
        t == (elapsed * 1000) \div SIG_RAMP_DOWN_MS
    IN  IF elapsed >= SIG_RAMP_DOWN_MS
        THEN signature_stop_immediate(w1)
        ELSE set_thermal(
                 set_vibration(w1, ease_intensity(w1.sig.fade_from_vib, 0, "EASE_OUT_SINE", t)),
                 ease_intensity(w1.sig.fade_from_thermal, 0, "EASE_OUT_SINE", t))

\* signature_tick while a pattern plays
step_tick(w, now_ms) ==
    LET w1 == IF w.sig.step_start_ms = 0
              THEN [w EXCEPT !.sig.step_start_ms = now_ms, !.sig.step_from_intensity = 0]
              ELSE w
        steps == SigSteps(w1.sig.steps)
        step == steps[w1.sig.step_index + 1]
        elapsed == now_ms - w1.sig.step_start_ms
        t == IF step.duration_ms > 0
             THEN Min((elapsed * 1000) \div step.duration_ms, 1000) ELSE 1000
        scaled == u8((step.target_intensity * w1.sig.intensity_scale) \div 100)
        target == IF step.is_vibration THEN signature_safe_vibration(scaled)
                  ELSE signature_safe_thermal(scaled)
        current == ease_intensity(w1.sig.step_from_intensity, target, step.ease, t)
        w2 == IF step.is_vibration THEN set_vibration(w1, current) ELSE set_thermal(w1, current)
        w3 == [w2 EXCEPT !.sig.step_index = @ + 1, !.sig.step_start_ms = now_ms,
                         !.sig.step_from_intensity = target]
    IN  IF elapsed >= step.duration_ms
        THEN IF steps[w3.sig.step_index + 1].duration_ms = 0
             THEN IF PATTERN_LOOPS(w3.sig.current_pattern)
                  THEN [w3 EXCEPT !.sig.step_index = 0]
                  ELSE signature_stop(w3)
             ELSE w3
        ELSE w2

signature_tick(w, now_ms) ==
    IF ~w.sig.initialized THEN w
    ELSE IF w.sig.fading_out THEN fade_tick(w, now_ms)
    ELSE IF w.sig.current_pattern = SIG_PATTERN_NONE \/ w.sig.steps = 0 THEN w
    ELSE step_tick(w, now_ms)

signature_is_playing(w) == w.sig.current_pattern # SIG_PATTERN_NONE /\ ~w.sig.fading_out

(***************************************************************************)
(* Signature player: operations as actions                                 *)
(***************************************************************************)
MaxSigCalls == 3
MaxNowSig == 2250
SigTickSteps == {0, 750, 1500}
SigPatterns == 0..SIG_PATTERN_COUNT
SigScales == {50, 255}
SafeRequests == 0..255

\* The operand and the results of the last operation when it was a call of the
\* safety clamps (-1 otherwise); *_twice is the clamp applied to its own result.
\* As history of the player:
\*   fade_tick0  -2, or after stop() was called on a playing pattern: -1 until
\*               the first tick that follows and then the time of that tick;
\*               -2 again after play() of a pattern and after stop_immediate()
\*   restop      a further stop() was called since the tick at fade_tick0
\*   dead        stop_immediate() was called and no pattern was played since
\*   killed      what the last operation, a stop_immediate(), found: the
\*               player's mode and the sum of its two outputs ("none", 0 after
\*               any other operation)
\*   cue_type, cue_priority, pattern
\*               when the last operation was cue_execute_as_signature: the
\*               cue's type ("NULL" for a null pointer) and priority and what
\*               cue_to_signature_pattern returned for it ("-", "-", -1 after
\*               any other operation)
SigObsInit == [requested |-> -1, vib |-> -1, thermal |-> -1, vib_twice |-> -1,
               thermal_twice |-> -1, fade_tick0 |-> -2, restop |-> FALSE,
               dead |-> FALSE, killed |-> [mode |-> "none", out |-> 0],
               cue_type |-> "-", cue_priority |-> "-", pattern |-> -1]

SigMode(sg) ==
    IF sg.current_pattern = SIG_PATTERN_NONE THEN "idle"
    ELSE IF sg.fading_out THEN "fading" ELSE "playing"

SigObsNext(o, op, sg, sg2, now2) ==
    LET played == op \in {"sig_play", "cue_play"} /\ SigMode(sg2) = "playing"
        stopped == op = "sig_stop" \/ (op = "sig_play" /\ ~played)
        mode == IF sg.initialized THEN SigMode(sg) ELSE "idle"
    IN  [ SigObsInit EXCEPT
            !.fade_tick0 =
                IF played \/ op = "sig_stop_immediate" THEN -2
                ELSE IF stopped /\ mode = "playing" THEN -1
                ELSE IF op = "sig_tick" /\ o.fade_tick0 = -1 THEN now2
                ELSE o.fade_tick0,
            !.restop =
                IF played \/ op = "sig_stop_immediate" \/ (stopped /\ mode = "playing")
                THEN FALSE
                ELSE IF stopped /\ o.fade_tick0 >= 0 THEN TRUE
                ELSE o.restop,
            !.dead = IF op = "sig_stop_immediate" THEN TRUE
                     ELSE IF played THEN FALSE ELSE o.dead,
            !.killed = IF op = "sig_stop_immediate"
                       THEN [mode |-> SigMode(sg), out |-> sg.vib_output + sg.thermal_output]
                       ELSE SigObsInit.killed ]

World == [sig |-> sig, th |-> th, vib |-> vib]

\* The outcome w2 of a player operation, written to the player and both drivers.
SigApply(op, w2, now2) ==
    /\ sig' = w2.sig
    /\ th' = w2.th
    /\ vib' = w2.vib
    /\ thObs' = ThObsNext(thObs, op, 0, th, w2.th, now2)
    /\ sigObs' = SigObsNext(sigObs, op, sig, w2.sig, now2)
    /\ lastOp' = op
    /\ now' = now2
    /\ UNCHANGED <<cueVars, restVars>>

SigCall(op, w2) ==
    /\ nCalls < MaxSigCalls
    /\ nCalls' = nCalls + 1
    /\ SigApply(op, w2, now)

SigPlay ==
    \E p \in SigPatterns, s \in SigScales :
        \E w2 \in {signature_play(World, p, s)} : SigCall("sig_play", w2)

SigStop == \E w2 \in {signature_stop(World)} : SigCall("sig_stop", w2)

SigStopImmediate ==
    \E w2 \in {signature_stop_immediate(World)} : SigCall("sig_stop_immediate", w2)

SigTick ==
    \E d \in SigTickSteps :
        /\ now + d <= MaxNowSig
        /\ nCalls' = nCalls
        /\ \E w2 \in {signature_tick(World, now + d)} : SigApply("sig_tick", w2, now + d)

\* signature_safe_vibration and signature_safe_thermal called with a request;
\* they read no state and are called right after boot.
SigSafe ==
    \E r \in SafeRequests :
        /\ lastOp = "init"
        /\ nCalls' = nCalls
        /\ sigObs' = [ sigObs EXCEPT
                       !.requested = r,
                       !.vib = signature_safe_vibration(r),
                       !.thermal = signature_safe_thermal(r),
                       !.vib_twice = signature_safe_vibration(signature_safe_vibration(r)),
                       !.thermal_twice = signature_safe_thermal(signature_safe_thermal(r)) ]
        /\ lastOp' = "sig_safe"
        /\ UNCHANGED <<now, sig, vib, thVars, cueVars, restVars>>

\* The player ticked every 300 ms or a millisecond earlier, and possibly at the
\* boot timestamp 0, while a host plays a short vibration pattern or one
\* that drives both channels, or asks for a pattern that does not exist, and
\* stops it gracefully or at once.
MaxNowFade == 2100
FadeTickSteps == {0, 299, 300}
FadePatterns == {SIG_PATTERN_NONE, SIG_GROUNDING_PULSE, SIG_GENTLE_ALERT, SIG_PATTERN_COUNT}
FadeScales == {100}

FadePlay ==
    \E p \in FadePatterns, s \in FadeScales :
        \E w2 \in {signature_play(World, p, s)} : SigCall("sig_play", w2)

FadeTick ==
    \E d \in FadeTickSteps :
        /\ now + d <= MaxNowFade
        /\ d = 0 => now = 0
        /\ nCalls' = nCalls
        /\ \E w2 \in {signature_tick(World, now + d)} : SigApply("sig_tick", w2, now + d)

\* A pattern played once at boot and then only ticked, every 500 or 1000 ms,
\* for longer than the longest pattern takes at that rate.
MaxNowStep == 36000
StepTickSteps == {500, 1000}
StepPatterns == 1..(SIG_PATTERN_COUNT - 1)
StepScales == {100}

StepPlay ==
    /\ lastOp = "init"
    /\ nCalls' = nCalls + 1
    /\ \E p \in StepPatterns, s \in StepScales :
        \E w2 \in {signature_play(World, p, s)} : SigApply("sig_play", w2, now)

StepTick ==
    /\ lastOp # "init"
    /\ nCalls' = nCalls
    /\ \E d \in StepTickSteps :
        /\ now + d <= MaxNowStep
        /\ \E w2 \in {signature_tick(World, now + d)} : SigApply("sig_tick", w2, now + d)

(***************************************************************************)
(* CUE TO SIGNATURE (cue_to_signature.c)                                   *)
(***************************************************************************)
MAPPINGS ==
    << [cue_type |-> "COMBINED",  priority |-> "ALERT",  pattern |-> SIG_FULL_RESET],
       [cue_type |-> "VIBRATION", priority |-> "ALERT",  pattern |-> SIG_FULL_RESET],
       [cue_type |-> "THERMAL",   priority |-> "ALERT",  pattern |-> SIG_SAFETY_EMBRACE],
       [cue_type |-> "COMBINED",  priority |-> "HIGH",   pattern |-> SIG_HEARTBEAT],
       [cue_type |-> "VIBRATION", priority |-> "HIGH",   pattern |-> SIG_HEARTBEAT],
       [cue_type |-> "THERMAL",   priority |-> "HIGH",   pattern |-> SIG_SAFETY_EMBRACE],
       [cue_type |-> "BREATHING", priority |-> "NORMAL", pattern |-> SIG_BREATHING_GUIDE],
       [cue_type |-> "VIBRATION", priority |-> "NORMAL", pattern |-> SIG_ATTENTION_TAP],
       [cue_type |-> "THERMAL",   priority |-> "NORMAL", pattern |-> SIG_WARM_EXHALE],
       [cue_type |-> "COMBINED",  priority |-> "NORMAL", pattern |-> SIG_GENTLE_ALERT],
       [cue_type |-> "VIBRATION", priority |-> "LOW",    pattern |-> SIG_GROUNDING_PULSE],
       [cue_type |-> "THERMAL",   priority |-> "LOW",    pattern |-> SIG_GROUNDING_WARMTH],
       [cue_type |-> "CHECK_FIT", priority |-> "LOW",    pattern |-> SIG_PRESENCE_CHECK],
       [cue_type |-> "ALERT",     priority |-> "ALERT",  pattern |-> SIG_FULL_RESET],
       [cue_type |-> "ALERT",     priority |-> "HIGH",   pattern |-> SIG_HEARTBEAT],
       [cue_type |-> "ALERT",     priority |-> "NORMAL", pattern |-> SIG_GENTLE_ALERT] >>

\* A cue_p pointer: NULL, or the address of a cue_p.
NullCue == [null |-> TRUE]
CuePtr(c) == [null |-> FALSE, val |-> c]

\* One of the two search loops, from entry i on: the index of the first entry
\* of the cue's type (and, in the first loop, of its priority), 0 if the
\* loop runs to its end.
RECURSIVE mapping_search(_, _, _)
mapping_search(c, with_priority, i) ==
    IF i > Len(MAPPINGS) THEN 0
    ELSE IF /\ MAPPINGS[i].cue_type = c.type
            /\ (with_priority => MAPPINGS[i].priority = c.priority)
         THEN i
         ELSE mapping_search(c, with_priority, i + 1)

\* the switch after the loops
mapping_category_default(type) ==
    CASE type \in {"ALERT", "COMBINED"} -> SIG_GENTLE_ALERT
      [] type = "BREATHING" -> SIG_BREATHING_GUIDE
      [] type = "VIBRATION" -> SIG_GROUNDING_PULSE
      [] type = "THERMAL" -> SIG_WARM_EXHALE
      [] type = "CHECK_FIT" -> SIG_PRESENCE_CHECK
      [] OTHER -> SIG_PATTERN_NONE

\* A lookup without the first loop.
cue_to_signature_pattern_Mut(cue_p) ==
    IF cue_p.null THEN SIG_PATTERN_NONE
    ELSE IF cue_p.val.type = "NONE" THEN SIG_PATTERN_NONE
    ELSE LET j == mapping_search(cue_p.val, FALSE, 1)
         IN  IF j # 0 THEN MAPPINGS[j].pattern
             ELSE mapping_category_default(cue_p.val.type)

cue_to_signature_pattern(cue_p) ==
    IF cue_p.null THEN SIG_PATTERN_NONE
    ELSE IF cue_p.val.type = "NONE" THEN SIG_PATTERN_NONE
    ELSE LET i == mapping_search(cue_p.val, TRUE, 1)
             j == mapping_search(cue_p.val, FALSE, 1)
         IN  IF i # 0 THEN MAPPINGS[i].pattern
             ELSE IF j # 0 THEN MAPPINGS[j].pattern
             ELSE mapping_category_default(cue_p.val.type)

calculate_intensity_scale(c) ==
    LET base == IF c.thermal_intensity > c.vib_intensity THEN c.thermal_intensity
                ELSE c.vib_intensity
        scaled == IF base < 25 THEN base * 2
                  ELSE IF base < 50 THEN 50 + ((base - 25) * 21) \div 25
                  ELSE IF base < 75 THEN 71 + ((base - 50) * 16) \div 25
                  ELSE 87 + ((base - 75) * 13) \div 25
    IN  IF base = 0 THEN 0
        ELSE IF scaled > 100 THEN 100 ELSE scaled

\* [w: the player and drivers afterwards, played: signature_play was called]
cue_execute_as_signature(w, cue_p) ==
    IF cue_p.null THEN [w |-> w, played |-> FALSE]
    ELSE IF cue_p.val.type = "NONE" THEN [w |-> w, played |-> FALSE]
    ELSE LET pattern == cue_to_signature_pattern(cue_p)
             intensity == calculate_intensity_scale(cue_p.val)
         IN  IF pattern = SIG_PATTERN_NONE THEN [w |-> w, played |-> FALSE]
             ELSE [w |-> signature_play(w, pattern,
                                        IF intensity > 0 /\ intensity < 15 THEN 15
                                        ELSE intensity),
                   played |-> TRUE]

\* Cues of every type and priority, and of a type value outside the
\* enumeration ("OTHER"), with the intensities of a faint and of a strong
\* cue, executed as signatures while the player is ticked every 300 ms.
MaxMapCalls == 2
MaxNowMap == 600
MapTickSteps == {300}
CUE_TYPES == {"NONE", "THERMAL", "VIBRATION", "BREATHING", "COMBINED", "ALERT", "CHECK_FIT"}
CUE_PRIORITIES == {"LOW", "NORMAL", "HIGH", "ALERT"}
MapIntensities == {<<5, 0>>, <<30, 80>>}
MapCues ==
    {NullCue} \cup
    { CuePtr([type |-> t, priority |-> pr, vib_intensity |-> x[1], thermal_intensity |-> x[2]]) :
        t \in CUE_TYPES \cup {"OTHER"}, pr \in CUE_PRIORITIES, x \in MapIntensities }

MapExecute ==
    \E cue_p \in MapCues :
        \E r \in {cue_execute_as_signature(World, cue_p)} :
            LET op == IF r.played THEN "cue_play" ELSE "cue_ignored"
            IN  /\ nCalls < MaxMapCalls
                /\ nCalls' = nCalls + 1
                /\ sig' = r.w.sig
                /\ th' = r.w.th
                /\ vib' = r.w.vib
                /\ thObs' = ThObsNext(thObs, op, 0, th, r.w.th, now)
                /\ sigObs' = [ SigObsNext(sigObs, op, sig, r.w.sig, now) EXCEPT
                                 !.cue_type = IF cue_p.null THEN "NULL" ELSE cue_p.val.type,
                                 !.cue_priority = IF cue_p.null THEN "-" ELSE cue_p.val.priority,
                                 !.pattern = cue_to_signature_pattern(cue_p) ]
                /\ lastOp' = op
                /\ UNCHANGED <<now, cueVars, restVars>>

MapTick ==
    \E d \in MapTickSteps :
        /\ now + d <= MaxNowMap
        /\ nCalls' = nCalls
        /\ \E w2 \in {signature_tick(World, now + d)} : SigApply("sig_tick", w2, now + d)

(***************************************************************************)
(* ACTUATOR SCHEDULER                                                      *)
(***************************************************************************)
MAX_INTENSITY == 100
MIN_INTENSITY == 5
MAX_DURATION_MS == 60000
COMBINED_VIB_CAP == 60
ACTUATOR_PRIORITY_LOW == 0
ACTUATOR_PRIORITY_NORMAL == 1
ACTUATOR_PRIORITY_HIGH == 2
ACTUATOR_PRIORITY_ALERT == 3

\* m_ctrl after actuator_init
CtrlInitState ==
    [ active |-> [ type |-> "NONE", intensity_pct |-> 0, duration_ms |-> 0,
                   timestamp_ms |-> 0, priority |-> ACTUATOR_PRIORITY_LOW,
                   thermal_pattern |-> 0, vibration_pattern |-> 0 ],
      active_end_ms |-> 0, thermal_running |-> FALSE, vibration_running |-> FALSE,
      skin_temp_c |-> 25 ]

\* The scheduler writes to both drivers: its functions take and return
\* a = [ctrl |-> m_ctrl, th |-> m_thermal, vib |-> m_vib].
apply_thermal(t, cmd, duration_s) ==
    IF cmd.thermal_pattern > 0
    THEN thermal_feature_play(t, cmd.thermal_pattern, cmd.intensity_pct, duration_s)
    ELSE thermal_feature_set_timed(t, cmd.intensity_pct, duration_s)

apply_vibration(v, cmd, intensity) ==
    IF cmd.vibration_pattern > 0
    THEN vibration_feature_play(v, cmd.vibration_pattern, intensity)
    ELSE vibration_feature_on(v, intensity)

apply_outputs(a, cmd) ==
    LET d0 == u8(cmd.duration_ms \div 1000)
        duration_s == IF d0 = 0 /\ cmd.duration_ms > 0 THEN 1 ELSE d0
    IN  CASE cmd.type = "THERMAL" ->
               [a EXCEPT !.th = apply_thermal(a.th, cmd, duration_s),
                         !.vib = vibration_feature_stop(a.vib),
                         !.ctrl.thermal_running = TRUE,
                         !.ctrl.vibration_running = FALSE]
          [] cmd.type = "VIBRATION" ->
               [a EXCEPT !.vib = apply_vibration(a.vib, cmd, cmd.intensity_pct),
                         !.th = thermal_feature_stop(a.th),
                         !.ctrl.thermal_running = FALSE,
                         !.ctrl.vibration_running = TRUE]
          [] cmd.type = "COMBINED" ->
               [a EXCEPT !.th = apply_thermal(a.th, cmd, duration_s),
                         !.vib = apply_vibration(a.vib, cmd,
                                                 Min(cmd.intensity_pct, COMBINED_VIB_CAP)),
                         !.ctrl.thermal_running = TRUE,
                         !.ctrl.vibration_running = TRUE]
          [] OTHER ->
               [a EXCEPT !.th = thermal_feature_stop(a.th),
                         !.vib = vibration_feature_stop(a.vib),
                         !.ctrl.thermal_running = FALSE,
                         !.ctrl.vibration_running = FALSE]

stop_outputs(a) ==
    [a EXCEPT !.th = thermal_feature_stop(a.th),
              !.vib = vibration_feature_stop(a.vib),
              !.ctrl.thermal_running = FALSE,
              !.ctrl.vibration_running = FALSE]

\* actuator_apply accepting everything in 0..255 and 0..65535.
actuator_apply_valid_Mut(cmd) == TRUE

\* the three parameter tests of actuator_apply
actuator_apply_valid(cmd) ==
    /\ ~(cmd.intensity_pct > MAX_INTENSITY)
    /\ ~(cmd.duration_ms > MAX_DURATION_MS)
    /\ ~(cmd.intensity_pct < MIN_INTENSITY /\ cmd.intensity_pct # 0)

\* actuator_apply taking a command of any priority.
actuator_apply_priority_ok_Mut(c, cmd) == TRUE

\* the priority test of actuator_apply
actuator_apply_priority_ok(c, cmd) ==
    ~(c.active.type # "NONE" /\ cmd.priority < c.active.priority)

\* returns [a |-> the state after the call, ret |-> the return value]
actuator_apply(a, cmd, now_ms) ==
    IF ~actuator_apply_valid(cmd) THEN [a |-> a, ret |-> 0]
    ELSE IF ~actuator_apply_priority_ok(a.ctrl, cmd) THEN [a |-> a, ret |-> 0]
    ELSE LET active == [cmd EXCEPT !.timestamp_ms = now_ms]
             a1 == [a EXCEPT !.ctrl.active = active,
                             !.ctrl.active_end_ms = now_ms + cmd.duration_ms,
                             !.th = thermal_feature_update_skin_temp(a.th, a.ctrl.skin_temp_c)]
         IN  [a |-> apply_outputs(a1, active), ret |-> 1]

\* actuator_tick stopping when the command ends and at no other time.
actuator_tick_clear_Mut(a) == a

\* the end of actuator_tick: the command is dropped when both drivers are idle
actuator_tick_clear(a) ==
    IF ~a.ctrl.thermal_running /\ ~a.ctrl.vibration_running /\ a.ctrl.active.type # "NONE"
    THEN [a EXCEPT !.ctrl.active.type = "NONE"]
    ELSE a

actuator_tick(a, now_ms) ==
    LET a1 == [a EXCEPT !.th = thermal_feature_tick(
                                  thermal_feature_update_skin_temp(a.th, a.ctrl.skin_temp_c),
                                  now_ms),
                        !.vib = vibration_feature_tick(a.vib, now_ms)]
        a2 == IF a1.ctrl.active.type # "NONE" /\ now_ms >= a1.ctrl.active_end_ms
              THEN [stop_outputs(a1) EXCEPT !.ctrl.active.type = "NONE"]
              ELSE a1
        a3 == [a2 EXCEPT !.ctrl.thermal_running = thermal_feature_is_active(a2.th),
                         !.ctrl.vibration_running = vibration_feature_is_active(a2.vib)]
    IN  actuator_tick_clear(a3)

actuator_stop_all(a) ==
    [stop_outputs(a) EXCEPT !.ctrl.active.type = "NONE", !.ctrl.active_end_ms = 0]

actuator_update_skin_temp(a, temp_c) ==
    [a EXCEPT !.ctrl.skin_temp_c = temp_c,
              !.th = thermal_feature_update_skin_temp(a.th, temp_c)]

\* actuator_apply_ble: returns [a |-> the state after the call, ret |-> the
\* return value, cmd |-> the command it built].  duration_ms is a uint16_t:
\* the product thermal_duration_s * 1000U is stored modulo 2^16.
actuator_apply_ble(a, thermal_intensity, thermal_duration_s, vibration_pattern, vibration_intensity, now_ms) ==
    LET want_thermal == thermal_intensity > 0 /\ thermal_duration_s > 0
        want_vibration == vibration_pattern > 0 /\ vibration_intensity > 0
        cmd0 == [ type |-> "NONE", intensity_pct |-> 0, duration_ms |-> 0,
                  timestamp_ms |-> now_ms, priority |-> ACTUATOR_PRIORITY_HIGH,
                  thermal_pattern |-> 0, vibration_pattern |-> vibration_pattern ]
        cmd == IF want_thermal /\ want_vibration
               THEN [cmd0 EXCEPT !.type = "COMBINED", !.intensity_pct = thermal_intensity,
                                 !.duration_ms = u16(thermal_duration_s * 1000)]
               ELSE IF want_thermal
               THEN [cmd0 EXCEPT !.type = "THERMAL", !.intensity_pct = thermal_intensity,
                                 !.duration_ms = u16(thermal_duration_s * 1000)]
               ELSE IF want_vibration
               THEN [cmd0 EXCEPT !.type = "VIBRATION", !.intensity_pct = vibration_intensity,
                                 !.duration_ms = 5000]
               ELSE cmd0
    IN  IF cmd.type = "NONE"
        THEN [a |-> actuator_stop_all(a), ret |-> 1, cmd |-> cmd]
        ELSE LET r == actuator_apply(a, cmd, now_ms)
             IN  [a |-> r.a, ret |-> r.ret, cmd |-> cmd]

\* The cue_input_t that wellness_manager_tick builds from the metrics m of the
\* biometric estimator (stress_score in thousandths, rmssd in hundredths).
WmCueInput(m, now_ms) ==
    [ timestamp_ms |-> now_ms,
      stress_level |-> u8(m.stress_score \div 10),
      coherence_pct |-> u8((1000 - m.stress_score) \div 10),
      confidence_pct |-> IF m.valid_samples > 60 THEN 90 ELSE 70,
      micro_var_pct100 |-> u16(m.rmssd \div 10),
      artifact_rate_pct |-> u8(((m.total_samples - m.valid_samples) * 100)
                                \div m.total_samples),
      stability_pct |-> 80 ]

(***************************************************************************)
(* BIOMETRIC ESTIMATOR                                                     *)
(*                                                                         *)
(* The code computes in float.  Here an RR interval is a whole number of   *)
(* milliseconds and the statistics are fixed-point: mean_rr_ms,            *)
(* mean_diff_sq, baseline_rmssd and stress_score in thousandths, rmssd in  *)
(* hundredths, every product rounded down.  The artifact tests compare     *)
(* whole numbers and are exact: |rr - last| > 0.20 * last is               *)
(* 5 * |rr - last| > last.                                                 *)
(***************************************************************************)
MIN_RR_MS == 300
MAX_RR_MS == 2000
MIN_BASELINE_SAMPLES == 60
DEFAULT_BASELINE_RMSSD == 40

Abs(x) == IF x < 0 THEN 0 - x ELSE x

RECURSIVE SqrtBetween(_, _, _)
\* the largest r in lo..hi with r * r <= n
SqrtBetween(n, lo, hi) ==
    IF lo >= hi THEN lo
    ELSE LET mid == (lo + hi + 1) \div 2
         IN  IF mid * mid <= n THEN SqrtBetween(n, mid, hi) ELSE SqrtBetween(n, lo, mid - 1)

\* sqrtf, rounded down, for 0 <= n < 2^31
Sqrt(n) == SqrtBetween(n, 0, 46340)

\* *p_metrics after biometrics_reset
biometrics_reset ==
    [ rmssd |-> 0, sdnn |-> 0, mean_rr_ms |-> 0, stress_score |-> 0, valid_samples |-> 0,
      last_rr_ms |-> 0, mean_diff_sq |-> 0, total_samples |-> 0,
      baseline_rmssd |-> DEFAULT_BASELINE_RMSSD * 1000, baseline_established |-> FALSE ]

\* Artifact rejection by the absolute limits alone.
is_artifact_Mut(m, rr_ms) == rr_ms < MIN_RR_MS \/ rr_ms > MAX_RR_MS

\* steps 1 and 2 of biometrics_process_rr
is_artifact(m, rr_ms) ==
    \/ rr_ms < MIN_RR_MS \/ rr_ms > MAX_RR_MS
    \/ /\ m.valid_samples > 0
       /\ 5 * Abs(rr_ms - m.last_rr_ms) > m.last_rr_ms

\* step 3: the smoothed squared difference and the RMSSD
update_rmssd(m, rr_ms) ==
    IF m.valid_samples > 0
    THEN LET diff == rr_ms - m.last_rr_ms
             diff_sq == diff * diff * 1000
             mds == IF m.valid_samples = 1 THEN diff_sq
                    ELSE (diff_sq + 9 * m.mean_diff_sq) \div 10
         IN  [m EXCEPT !.mean_diff_sq = mds, !.rmssd = Sqrt(mds * 10)]
    ELSE m

update_mean(m, rr_ms) ==
    IF m.valid_samples = 0 THEN [m EXCEPT !.mean_rr_ms = rr_ms * 1000]
    ELSE [m EXCEPT !.mean_rr_ms = (5 * rr_ms * 1000 + 95 * m.mean_rr_ms) \div 100]

\* A baseline trusted from the 60th accepted sample on.
baseline_reached_Mut(m) == m.valid_samples >= MIN_BASELINE_SAMPLES - 1

\* the sample count test for baseline_established
baseline_reached(m) == m.valid_samples > MIN_BASELINE_SAMPLES

\* The interpolation line without its two saturation branches.
stress_raw_Mut(m) ==
    1000 - ((m.rmssd * 10 * 1000) \div m.baseline_rmssd - 500)

\* stress_raw from rmssd / baseline_rmssd
stress_raw(m) ==
    LET ratio == (m.rmssd * 10 * 1000) \div m.baseline_rmssd
    IN  IF ratio >= 1500 THEN 0
        ELSE IF ratio <= 500 THEN 1000
        ELSE 1000 - (ratio - 500)

\* step 4: baseline and stress score
update_baseline_stress(m) ==
    IF m.rmssd > 0
    THEN LET m1 == IF m.valid_samples > 10
                   THEN [m EXCEPT !.baseline_rmssd =
                            (5 * m.rmssd * 10 + 995 * m.baseline_rmssd) \div 1000]
                   ELSE m
             m2 == IF baseline_reached(m1) THEN [m1 EXCEPT !.baseline_established = TRUE]
                   ELSE m1
         IN  [m2 EXCEPT !.stress_score =
                 IF m2.valid_samples = 1 THEN stress_raw(m2)
                 ELSE (2 * stress_raw(m2) + 8 * m2.stress_score) \div 10]
    ELSE m

\* An accepted sample counted in total_samples only.
count_sample_Mut(m, rr_ms) ==
    [m EXCEPT !.last_rr_ms = rr_ms, !.total_samples = m.total_samples + 1]

\* the end of biometrics_process_rr
count_sample(m, rr_ms) ==
    [m EXCEPT !.last_rr_ms = rr_ms, !.valid_samples = m.valid_samples + 1,
              !.total_samples = m.total_samples + 1]

\* returns [m |-> *p_metrics after the call, ret |-> the return value]
biometrics_process_rr(m, rr_ms) ==
    IF is_artifact(m, rr_ms) THEN [m |-> m, ret |-> FALSE]
    ELSE [m |-> count_sample(update_baseline_stress(update_mean(update_rmssd(m, rr_ms), rr_ms)),
                             rr_ms),
          ret |-> TRUE]

(***************************************************************************)
(* PPG PEAK DETECTOR AND RR RING BUFFER                                    *)
(*                                                                         *)
(* The code computes in float.  Here a sample, the DC buffer and the       *)
(* DC-removed signal are thousandths, the squared derivative, the          *)
(* integrator and the threshold are millionths, and an RR interval is a    *)
(* whole number of milliseconds; quotients are rounded down.  Arrays are   *)
(* sequences: C index i is element i + 1.                                  *)
(***************************************************************************)
MA_DC_WINDOW == 5
MA_INTEGRATOR_WINDOW == 12
REFRACTORY_MS == 300
INITIAL_THRESHOLD == 50000
RR_BUFFER_SIZE == 32

\* g_state and the ring buffer as the zero-initialised statics they are at boot
WpInitState ==
    [ g_state |-> [ dc_buffer |-> [i \in 1..MA_DC_WINDOW |-> 0],
                    integ_buffer |-> [i \in 1..MA_INTEGRATOR_WINDOW |-> 0],
                    dc_idx |-> 0, integ_idx |-> 0, dc_sum |-> 0, integ_sum |-> 0,
                    prev_dc_removed |-> 0, threshold |-> 0, last_peak_ts_ms |-> 0,
                    initialized |-> FALSE ],
      g_rr_buffer |-> [i \in 1..RR_BUFFER_SIZE |-> 0],
      g_rr_head |-> 0, g_rr_tail |-> 0, g_rr_count |-> 0 ]

\* clears g_state and the ring's indices; the stored values stay in the array
wellness_reset(w) ==
    [w EXCEPT !.g_state = WpInitState.g_state,
              !.g_rr_head = 0, !.g_rr_tail = 0, !.g_rr_count = 0]

\* returns the buffer, index and sum after the update, and the average
moving_average_update(buffer, idx, size, accum, sample) ==
    LET accum2 == accum - buffer[idx + 1] + sample
    IN  [ buffer |-> [buffer EXCEPT ![idx + 1] = sample],
          idx |-> (idx + 1) % size,
          accum |-> accum2,
          avg |-> accum2 \div size ]

\* the first-call initialisation of wellness_process_sample
init_state(g, sample) ==
    IF g.initialized THEN g
    ELSE [ g EXCEPT !.dc_buffer = [i \in 1..MA_DC_WINDOW |-> sample],
                    !.integ_buffer = [i \in 1..MA_INTEGRATOR_WINDOW |-> 0],
                    !.dc_sum = sample * MA_DC_WINDOW, !.integ_sum = 0,
                    !.prev_dc_removed = sample, !.threshold = INITIAL_THRESHOLD,
                    !.last_peak_ts_ms = 0, !.dc_idx = 0, !.integ_idx = 0,
                    !.initialized = TRUE ]

\* A push that stores the value and discards nothing.
rr_push_Mut(w, rr) ==
    [w EXCEPT !.g_rr_buffer[w.g_rr_head + 1] = rr,
              !.g_rr_head = (w.g_rr_head + 1) % RR_BUFFER_SIZE,
              !.g_rr_count = w.g_rr_count + 1]

\* the push into the RR ring buffer, dropping the oldest value on overflow
rr_push(w, rr) ==
    LET w1 == IF w.g_rr_count = RR_BUFFER_SIZE
              THEN [w EXCEPT !.g_rr_tail = (w.g_rr_tail + 1) % RR_BUFFER_SIZE,
                             !.g_rr_count = w.g_rr_count - 1]
              ELSE w
    IN  [w1 EXCEPT !.g_rr_buffer[w1.g_rr_head + 1] = rr,
                   !.g_rr_head = (w1.g_rr_head + 1) % RR_BUFFER_SIZE,
                   !.g_rr_count = w1.g_rr_count + 1]

\* returns [w |-> the state after the call, ret |-> the return value,
\*          out |-> the value written to *out_rr_ms, -1 when nothing is written,
\*          is_peak |-> whether the sample was taken for a peak]
wellness_process_sample(w, sample, timestamp_ms) ==
    LET g0 == init_state(w.g_state, sample)
        dc == moving_average_update(g0.dc_buffer, g0.dc_idx, MA_DC_WINDOW, g0.dc_sum, sample)
        dc_removed == sample - dc.avg
        diff == dc_removed - g0.prev_dc_removed
        squared == diff * diff
        integ == moving_average_update(g0.integ_buffer, g0.integ_idx, MA_INTEGRATOR_WINDOW,
                                       g0.integ_sum, squared)
        g1 == [g0 EXCEPT !.dc_buffer = dc.buffer, !.dc_idx = dc.idx, !.dc_sum = dc.accum,
                         !.prev_dc_removed = dc_removed,
                         !.integ_buffer = integ.buffer, !.integ_idx = integ.idx,
                         !.integ_sum = integ.accum]
        refractory_ok == \/ g1.last_peak_ts_ms = 0
                         \/ timestamp_ms - g1.last_peak_ts_ms > REFRACTORY_MS
        is_peak == refractory_ok /\ integ.avg > g1.threshold
        g2 == [g1 EXCEPT !.threshold = (9 * g1.threshold + integ.avg) \div 10]
        emit == g2.last_peak_ts_ms > 0
        rr == timestamp_ms - g2.last_peak_ts_ms
        w1 == [w EXCEPT !.g_state = g2]
        w2 == IF emit THEN rr_push(w1, rr) ELSE w1
    IN  IF is_peak
        THEN [ w |-> [w2 EXCEPT !.g_state.last_peak_ts_ms = timestamp_ms],
               ret |-> IF timestamp_ms > 0 THEN 1 ELSE 0,
               out |-> IF emit THEN rr ELSE -1,
               is_peak |-> TRUE ]
        ELSE [ w |-> [w EXCEPT !.g_state =
                         [g1 EXCEPT !.threshold = g1.threshold - g1.threshold \div 200]],
               ret |-> 0, out |-> -1, is_peak |-> FALSE ]

\* returns [w |-> the state after the call, ret |-> the return value,
\*          out |-> the value written to *out_rr_ms, -1 when nothing is written]
wellness_pop_rr(w) ==
    IF w.g_rr_count = 0 THEN [w |-> w, ret |-> 0, out |-> -1]
    ELSE [ w |-> [w EXCEPT !.g_rr_tail = (w.g_rr_tail + 1) % RR_BUFFER_SIZE,
                           !.g_rr_count = w.g_rr_count - 1],
           ret |-> 1, out |-> w.g_rr_buffer[w.g_rr_tail + 1] ]

(***************************************************************************)
(* Actuator scheduler: operations as actions                               *)
(***************************************************************************)
MaxActCalls == 2
MaxNowAct == 4000
ActTickSteps == {500, 1000}
ActPriorities == {ACTUATOR_PRIORITY_NORMAL, ACTUATOR_PRIORITY_ALERT}
ActSkinTemps == {36, 42}

Cmd(type, intensity, duration, tp, vp, prio) ==
    [ type |-> type, intensity_pct |-> intensity, duration_ms |-> duration,
      timestamp_ms |-> 0, priority |-> prio,
      thermal_pattern |-> tp, vibration_pattern |-> vp ]

\* Commands handed to actuator_apply: in range, at the limits of the ranges,
\* and outside them (intensity 3 and 101, duration 60001).
ActCmds ==
    { Cmd("THERMAL", 50, 3000, 0, 0, p) : p \in ActPriorities } \cup
    { Cmd("VIBRATION", 50, 1500, 0, VIB_PATTERN_SINGLE, p) : p \in ActPriorities } \cup
    { Cmd("VIBRATION", 50, 1500, 0, 0, p) : p \in ActPriorities } \cup
    { Cmd("COMBINED", 80, 3000, 2, 0, p) : p \in ActPriorities } \cup
    { Cmd("VIBRATION", 100, 60000, 0, 0, p) : p \in ActPriorities } \cup
    { Cmd("VIBRATION", 0, 1500, 0, 0, p) : p \in ActPriorities } \cup
    { Cmd("THERMAL", 3, 1500, 0, 0, ACTUATOR_PRIORITY_ALERT),
      Cmd("VIBRATION", 101, 1500, 0, 0, ACTUATOR_PRIORITY_ALERT),
      Cmd("VIBRATION", 50, 60001, 0, 0, ACTUATOR_PRIORITY_ALERT) }

NoCmd == Cmd("NONE", -1, -1, -1, -1, -1)

\* The command and the return value of the last operation when it was
\* actuator_apply (NoCmd and -1 otherwise), and whether the last operation was
\* a tick that found a command active and ended it: "expired" at its end time,
\* "idle" before it ("no" otherwise).
CtrlObsInit == [cmd |-> NoCmd, ret |-> -1, ended |-> "no"]

ActWorld == [ctrl |-> ctrl, th |-> th, vib |-> vib]

\* The outcome a2 of a scheduler operation, written to the scheduler and both
\* drivers; thOp is what the operation was for the thermal driver.
ActApplyWorld(op, thOp, a2, obs2, now2) ==
    /\ ctrl' = a2.ctrl
    /\ th' = a2.th
    /\ vib' = a2.vib
    /\ thObs' = ThObsNext(thObs, thOp, 0, th, a2.th, now2)
    /\ ctrlObs' = obs2
    /\ lastOp' = op
    /\ now' = now2
    /\ UNCHANGED <<cueVars, sig, sigObs, bioVars, wpVars>>

ActCall(op, thOp, a2, obs2) ==
    /\ nCalls < MaxActCalls
    /\ nCalls' = nCalls + 1
    /\ ActApplyWorld(op, thOp, a2, obs2, now)

ActApply ==
    \E cmd \in ActCmds :
        \E r \in {actuator_apply(ActWorld, cmd, now)} :
            ActCall("act_apply",
                    IF r.ret = 1 /\ cmd.type \in {"THERMAL", "COMBINED"}
                    THEN "set_timed" ELSE "act_apply",
                    r.a, [cmd |-> cmd, ret |-> r.ret, ended |-> "no"])

ActStopAll ==
    \E a2 \in {actuator_stop_all(ActWorld)} : ActCall("act_stop_all", "stop", a2, CtrlObsInit)

ActUpdateSkinTemp ==
    \E c \in ActSkinTemps :
        \E a2 \in {actuator_update_skin_temp(ActWorld, c)} :
            ActCall("act_update_skin_temp", "update_skin_temp", a2, CtrlObsInit)

\* One pass of the main loop's actuator part (main.c:254-256): actuator_tick,
\* which ticks both drivers, and then both drivers ticked once more.
ActTick ==
    \E d \in ActTickSteps :
        /\ now + d <= MaxNowAct
        /\ nCalls' = nCalls
        /\ \E a1 \in {actuator_tick(ActWorld, now + d)} :
             \E a2 \in {[a1 EXCEPT !.th = thermal_feature_tick(a1.th, now + d),
                                   !.vib = vibration_feature_tick(a1.vib, now + d)]} :
                ActApplyWorld("act_tick", "tick", a2,
                              [CtrlObsInit EXCEPT !.ended =
                                  IF ctrl.active.type = "NONE" \/ a2.ctrl.active.type # "NONE"
                                  THEN "no"
                                  ELSE IF now + d >= ctrl.active_end_ms THEN "expired"
                                  ELSE "idle"],
                              now + d)

\* Requests over BLE: every duration a uint8_t can hold, at an intensity the
\* scheduler accepts, with and without a vibration pattern.
MaxBleCalls == 2
BleIntensities == {0, 50}
BleDurations == 0..255
BleVibrations == {<<0, 0>>, <<VIB_PATTERN_SINGLE, 40>>}

\* An actuator_apply_ble call: ctrlObs holds the command it built, its return
\* value and the request.
BleObs(r, ti, td, vp, vi) ==
    [ cmd |-> r.cmd, ret |-> r.ret, ended |-> "no",
      req |-> [ thermal_intensity |-> ti, thermal_duration_s |-> td,
                vibration_pattern |-> vp, vibration_intensity |-> vi ] ]

BleThOp(r) ==
    IF r.cmd.type = "NONE" THEN "stop"
    ELSE IF r.ret = 1 /\ r.cmd.type \in {"THERMAL", "COMBINED"} THEN "set_timed"
    ELSE "act_apply"

BleApply ==
    /\ nCalls < MaxBleCalls
    /\ nCalls' = nCalls + 1
    /\ \E ti \in BleIntensities, td \in BleDurations, v \in BleVibrations :
        \E r \in {actuator_apply_ble(ActWorld, ti, td, v[1], v[2], now)} :
            ActApplyWorld("act_apply_ble", BleThOp(r), r.a,
                             BleObs(r, ti, td, v[1], v[2]), now)

\* The autonomous feedback of wellness_manager_tick: every 15 s or more, with
\* more than 30 valid samples, the metrics become a cue input, and a cue that
\* the engine generates goes to actuator_apply_ble.  The metrics are states of
\* the biometric estimator after 31, 62 and 32 beats.
MaxWmCalls == 2
WmSteps == {15000, 180000}
WmMetrics ==
    { [stress_score |-> 996, rmssd |-> 152, valid_samples |-> 31, total_samples |-> 31],
      [stress_score |-> 796, rmssd |-> 5059, valid_samples |-> 62, total_samples |-> 62],
      [stress_score |-> 515, rmssd |-> 3320, valid_samples |-> 32, total_samples |-> 32] }

NoBle == [a |-> ActWorld, ret |-> -1, cmd |-> NoCmd]

WmFeedback ==
    /\ nCalls < MaxWmCalls
    /\ nCalls' = nCalls + 1
    /\ \E d \in WmSteps, m \in WmMetrics :
      \E input \in {WmCueInput(m, now + d)} :
        \E r \in {cue_processor_generate(cue, input)} :
          \E b \in {IF r.ret
                    THEN actuator_apply_ble(ActWorld, r.out.thermal_intensity,
                                            r.out.thermal_duration_s, r.out.vib_pattern,
                                            r.out.vib_intensity, now + d)
                    ELSE NoBle} :
            /\ m.valid_samples > 30
            /\ now' = now + d
            /\ cue' = r.st
            /\ cueOut' = [ret |-> r.ret, out |-> r.out]
            /\ cueObs' = [ gate |-> r.gate, input |-> input,
                           trig_input |-> IF r.ret THEN input ELSE cueObs.trig_input,
                           trig_type |-> IF r.ret THEN r.out.type ELSE cueObs.trig_type,
                           trig_ms |-> IF r.ret THEN now + d ELSE cueObs.trig_ms,
                           times |-> IF r.ret THEN Append(cueObs.times, now + d)
                                     ELSE cueObs.times,
                           types |-> IF r.ret THEN Append(cueObs.types, r.out.type)
                                     ELSE cueObs.types,
                           streak |-> 0,
                           oob |-> cueObs.oob ]
            /\ ctrl' = b.a.ctrl
            /\ th' = b.a.th
            /\ vib' = b.a.vib
            /\ thObs' = ThObsNext(thObs, IF r.ret THEN BleThOp(b) ELSE "wm_feedback", 0,
                                  th, b.a.th, now + d)
            /\ ctrlObs' = IF r.ret
                          THEN BleObs(b, r.out.thermal_intensity, r.out.thermal_duration_s,
                                      r.out.vib_pattern, r.out.vib_intensity)
                          ELSE CtrlObsInit
            /\ lastOp' = "wm_feedback"
            /\ UNCHANGED <<sig, sigObs, bioVars, wpVars>>

(***************************************************************************)
(* Biometric estimator: operations as actions                              *)
(***************************************************************************)
MaxBioSamples == 64
\* RR values at and around the limits of the artifact tests (300, 2000, and
\* 640 and 960 around a beat of 800), and the rhythms 800 and 500.
BioRRs == {299, 300, 500, 639, 640, 780, 800, 960, 961, 2000, 2001}
\* The run is a steady rhythm of 800 ms; any of BioRRs may come in its place
\* when this many samples have been accepted.
BioFreeAt == {0, 1, 2, 61, 62}
BioSteadyRRs == {800}

BioObsInit == [rr |-> -1, ret |-> FALSE]

BioProcess ==
    \E rr \in (IF bio.valid_samples \in BioFreeAt THEN BioRRs ELSE BioSteadyRRs) :
        \E r \in {biometrics_process_rr(bio, rr)} :
            /\ bio.valid_samples < MaxBioSamples
            /\ bio' = r.m
            /\ bioObs' = [rr |-> rr, ret |-> r.ret]
            /\ lastOp' = "process_rr"
            /\ UNCHANGED <<now, nCalls, thVars, cueVars, sigVars, actVars, wpVars>>

BioReset ==
    /\ bio.valid_samples > 0
    /\ bio' = biometrics_reset
    /\ bioObs' = BioObsInit
    /\ lastOp' = "bio_reset"
    /\ UNCHANGED <<now, nCalls, thVars, cueVars, sigVars, actVars, wpVars>>

(***************************************************************************)
(* Peak detector: operations as actions                                    *)
(*                                                                         *)
(* The sample stream alternates between 0 and 1.0 with a timestamp step of *)
(* WpDefaultStep, which makes every sample a peak and consecutive RR       *)
(* intervals different; at the sample counts in WpFreeAt the sample and    *)
(* the step are chosen freely.  wpObs records the call and, as history,    *)
(* the timestamps of the last two peaks accepted since the last reset (-1: *)
(* none) and the sequence of RR values produced and not yet popped or      *)
(* dropped, before and after the call.                                     *)
(***************************************************************************)
MaxWpSamples == 36
WpSamples == {0, 1000}
WpSteps == {0, 10, 300, 301}
WpFreeAt == {0, 1}
WpResetAt == {2, 35}
WpDefaultStep(n) == 400 + 10 * (n % 3)

WpObsInit ==
    [ n |-> 0, ts |-> -1, ret |-> -1, out |-> -1, is_peak |-> FALSE,
      prev_peak_ts |-> -1, peak_ts |-> -1,
      pushed |-> FALSE, dropped |-> FALSE, queue |-> <<>>, before |-> <<>> ]

\* the sample the alternating stream delivers after the last one
WpNextSample(w) ==
    1000 - w.g_state.dc_buffer[((w.g_state.dc_idx + MA_DC_WINDOW - 1) % MA_DC_WINDOW) + 1]

WpInputs(w, n) ==
    IF n \in WpFreeAt THEN WpSamples \X WpSteps
    ELSE {<<WpNextSample(w), WpDefaultStep(n)>>}

WpProcessSample ==
    /\ wpObs.n < MaxWpSamples
    /\ \E in \in WpInputs(wp, wpObs.n) :
         \E r \in {wellness_process_sample(wp, in[1], now + in[2])} :
            LET pushed == r.w.g_rr_buffer # wp.g_rr_buffer \/ r.w.g_rr_head # wp.g_rr_head
                dropped == pushed /\ Len(wpObs.queue) = RR_BUFFER_SIZE
                kept == IF dropped THEN Tail(wpObs.queue) ELSE wpObs.queue
            IN  /\ now' = now + in[2]
                /\ wp' = r.w
                /\ wpObs' = [ wpObs EXCEPT
                       !.n = wpObs.n + 1, !.ts = now + in[2],
                       !.ret = r.ret, !.out = r.out, !.is_peak = r.is_peak,
                       !.prev_peak_ts = wpObs.peak_ts,
                       !.peak_ts = IF r.is_peak THEN now + in[2] ELSE wpObs.peak_ts,
                       !.pushed = pushed, !.dropped = dropped,
                       !.before = wpObs.queue,
                       !.queue = IF pushed
                                 THEN Append(kept, r.out)
                                 ELSE wpObs.queue ]
    /\ lastOp' = "wp_sample"
    /\ UNCHANGED <<nCalls, thVars, cueVars, sigVars, actVars, bioVars>>

WpPopRr ==
    /\ \E r \in {wellness_pop_rr(wp)} :
          /\ wp' = r.w
          /\ wpObs' = [ wpObs EXCEPT
                 !.ret = r.ret, !.out = r.out, !.before = wpObs.queue,
                 !.queue = IF wpObs.queue = <<>> THEN <<>> ELSE Tail(wpObs.queue) ]
    /\ lastOp' = "wp_pop"
    /\ UNCHANGED <<now, nCalls, thVars, cueVars, sigVars, actVars, bioVars>>

WpReset ==
    /\ wpObs.n \in WpResetAt
    /\ lastOp # "wp_reset"
    /\ wp' = wellness_reset(wp)
    /\ wpObs' = [ wpObs EXCEPT !.ret = -1, !.out = -1, !.is_peak = FALSE,
                                 !.prev_peak_ts = -1, !.peak_ts = -1,
                                 !.pushed = FALSE, !.dropped = FALSE,
                                 !.before = wpObs.queue, !.queue = <<>> ]
    /\ lastOp' = "wp_reset"
    /\ UNCHANGED <<now, nCalls, thVars, cueVars, sigVars, actVars, bioVars>>

(***************************************************************************)
(* The firmware after initialisation and its runs                          *)
(***************************************************************************)
Init ==
    /\ now = 0
    /\ th = ThermalInitState
    /\ thObs = ThObsInit
    /\ cue = cue_processor_init
    /\ cueOut = CueOutInit
    /\ cueObs = CueObsInit
    /\ sig = SigInitState
    /\ vib = VibInitState
    /\ sigObs = SigObsInit
    /\ ctrl = CtrlInitState
    /\ ctrlObs = CtrlObsInit
    /\ bio = biometrics_reset
    /\ bioObs = BioObsInit
    /\ wp = WpInitState
    /\ wpObs = WpObsInit
    /\ lastOp = "init"
    /\ nCalls = 0

NextThermal ==
    \/ ThSet
    \/ ThSetTimed
    \/ ThPlay
    \/ ThStop
    \/ ThUpdateSkinTemp
    \/ ThClearFault
    \/ ThTick

SpecThermal == Init /\ [][NextThermal]_vars

NextCue ==
    \/ CueGenerate
    \/ CueSetPreferences
    \/ CueSetHour
    \/ CueReset

SpecCue == Init /\ [][NextCue]_vars

SpecRate == Init /\ [][CueGenerateHourly]_vars

NextGate ==
    \/ GateGenerateSteady
    \/ GateGenerate
    \/ GateSetPreferences
    \/ GateSetHour
    \/ GateReset

SpecGate == Init /\ [][NextGate]_vars

NextEng ==
    \/ EngGenerate
    \/ EngSetPreferences
    \/ EngReset

SpecEng == Init /\ [][NextEng]_vars

NextSig ==
    \/ SigPlay
    \/ SigStop
    \/ SigStopImmediate
    \/ SigTick
    \/ SigSafe

SpecSig == Init /\ [][NextSig]_vars

NextFade ==
    \/ FadePlay
    \/ SigStop
    \/ SigStopImmediate
    \/ FadeTick

SpecFade == Init /\ [][NextFade]_vars

NextFirst ==
    \/ FirstGenerate
    \/ FirstReset

SpecFirst == Init /\ [][NextFirst]_vars

NextCool ==
    \/ CoolGenerate
    \/ FirstReset

SpecCool == Init /\ [][NextCool]_vars

NextTrend ==
    \/ TrendGenerate
    \/ TrendGenerateThermal

SpecTrend == Init /\ [][NextTrend]_vars

NextHeat ==
    \/ ThSet
    \/ ThSetTimed
    \/ HeatPlay
    \/ ThStop
    \/ ThUpdateSkinTemp
    \/ ThClearFault
    \/ HeatTick

SpecHeat == Init /\ [][NextHeat]_vars

NextRun ==
    \/ ThSet
    \/ ThStop
    \/ RunUpdateSkinTemp
    \/ ThClearFault
    \/ RunTick

SpecRun == Init /\ [][NextRun]_vars

SpecBle == Init /\ [][BleApply]_vars

NextWm ==
    \/ CueSetPreferences
    \/ WmFeedback

SpecWm == Init /\ [][NextWm]_vars

NextStep ==
    \/ StepPlay
    \/ StepTick

SpecStep == Init /\ [][NextStep]_vars

\* The main loop calls signature_tick on every pass.
SpecStepFair == SpecStep /\ WF_vars(StepTick)

NextMap ==
    \/ MapExecute
    \/ MapTick

SpecMap == Init /\ [][NextMap]_vars

NextAct ==
    \/ ActApply
    \/ ActStopAll
    \/ ActUpdateSkinTemp
    \/ ActTick

SpecAct == Init /\ [][NextAct]_vars

NextBio ==
    \/ BioProcess
    \/ BioReset

SpecBio == Init /\ [][NextBio]_vars

\* the sample stream, the telemetry consumer and resets of the peak detector
NextWp ==
    \/ WpProcessSample
    \/ WpPopRr
    \/ WpReset

SpecWp == Init /\ [][NextWp]_vars

(***************************************************************************)
(* Thermal driver: claims                                                  *)
(***************************************************************************)

\* C1: once the driver is in Fault, every set, set_timed, play, stop and tick
\* leaves it in Fault with duty 0; the only step out of Fault is clear_fault
\* called while the skin temperature is below 37 C.
C1_FaultLatched ==
    [][ th.state = "FAULT" =>
          \/ th'.state = "FAULT" /\ th'.current_duty = 0
          \/ lastOp' = "clear_fault" /\ th.skin_temp_c < 37 ]_vars

\* C2: from the moment a Ramping/Active session ends (time t) the driver is in
\* Cooldown, whatever is called, until t + 30 s has elapsed.
C2_CooldownHeld ==
    (thObs.sess_end # -1 /\ now < thObs.sess_end + 30000) => th.state = "COOLDOWN"

\* C7 as claimed: with the skin at or above 42 C for 500 ms of a Ramping/Active
\* run, the tick leaves the driver in Fault, code OverTemp, duty 0; and a
\* heating request (set_timed, intensity > 0) made at or above 42 C where the
\* driver takes requests (Off, Ramping, Active) goes to Fault.
C7_Claimed ==
    [][ /\ ( lastOp' = "tick" /\ thermal_feature_is_active(th)
             /\ thObs.hot_since # -1 /\ now' >= thObs.hot_since + 500 )
           => ( th'.state = "FAULT" /\ th'.fault = "OVER_TEMP" /\ th'.current_duty = 0 )
        /\ ( lastOp' = "set_timed" /\ th.skin_temp_c >= 42 /\ thObs'.arg_i > 0
             /\ th.state \in {"OFF", "RAMPING", "ACTIVE"} )
           => ( th'.state = "FAULT" /\ th'.current_duty = 0 ) ]_vars

\* C7 as the code has it: with the skin at or above 42 C for 500 ms of a
\* Ramping/Active run, the tick ends the run with duty 0: in Fault with code
\* OverTemp, or, when that tick is at or past the end time of an Active session,
\* in Cooldown by auto-shutoff with code Timeout.  set_timed with a non-zero
\* intensity called at or above 42 C in Off, Ramping or Active goes to Fault with
\* duty 0; with intensity 0, or in Cooldown or Fault, it never starts heating.
C7_OverTempShutdown ==
    [][ /\ ( lastOp' = "tick" /\ thermal_feature_is_active(th)
             /\ thObs.hot_since # -1 /\ now' >= thObs.hot_since + 500 )
           => /\ th'.current_duty = 0
              /\ \/ th'.state = "FAULT" /\ th'.fault = "OVER_TEMP"
                 \/ /\ th.state = "ACTIVE" /\ now' >= th.end_ms
                    /\ th'.state = "COOLDOWN" /\ th'.fault = "TIMEOUT"
        /\ ( lastOp' = "set_timed" /\ th.skin_temp_c >= 42 )
           => /\ th'.current_duty = 0 /\ ~thermal_feature_is_active(th')
              /\ ( thObs'.arg_i > 0 /\ th.state \in {"OFF", "RAMPING", "ACTIVE"} )
                 => ( th'.state = "FAULT" /\ th'.fault = "OVER_TEMP" ) ]_vars

\* A tick found the skin at 42 C or more, 500 ms or longer into a run, and faulted.
C7_Witness ==
    /\ lastOp = "tick" /\ thObs.pre_state \in {"RAMPING", "ACTIVE"}
    /\ thObs.hot_since # -1 /\ now >= thObs.hot_since + 500
    /\ th.state = "FAULT" /\ th.fault = "OVER_TEMP" /\ th.current_duty = 0

\* C8: clear_fault in Fault changes nothing while the skin is at 37 C or more;
\* below 37 C it sets state Off, fault None and resets the runaway history
\* (prev_temp_ms = 0), nothing else; in any other state it changes nothing.
C8_ClearFault ==
    [][ lastOp' = "clear_fault" =>
          IF th.state = "FAULT" /\ th.skin_temp_c < 37
          THEN /\ th'.state = "OFF" /\ th'.fault = "NONE" /\ th'.prev_temp_ms = 0
               /\ \A f \in DOMAIN th \ {"state", "fault", "prev_temp_ms"} : th'[f] = th[f]
          ELSE th' = th ]_vars

\* clear_fault was called in Fault below 37 C and the driver is Off again.
C8_Witness ==
    /\ lastOp = "clear_fault" /\ thObs.pre_state = "FAULT"
    /\ th.state = "OFF" /\ th.fault = "NONE" /\ th.skin_temp_c < 37

\* C10: the driver is never in Ramping/Active for more than 60 s without a
\* break, and a tick at or after a session's end time ends it by auto-shutoff:
\* Cooldown with fault code Timeout.
C10_RunBounded ==
    [][ /\ ( thermal_feature_is_active(th') /\ thObs'.run_since # -1 )
           => now' - thObs'.run_since <= 60000
        /\ ( lastOp' = "tick" /\ thermal_feature_is_active(th)
             /\ th.start_ms # 0 /\ now' >= th.end_ms )
           => ( th'.state = "COOLDOWN" /\ th'.fault = "TIMEOUT" ) ]_vars

(***************************************************************************)
(* Cue engine: claims                                                      *)
(***************************************************************************)

\* The cooldown window C3 names for each cue type (none for the other types).
CooldownWindow(type) ==
    CASE type = "VIBRATION" -> CUE_COOLDOWN_VIBRATION_MS
      [] type = "THERMAL" -> CUE_COOLDOWN_THERMAL_MS
      [] type = "COMBINED" -> CUE_COOLDOWN_COMBINED_MS
      [] type = "ALERT" -> CUE_COOLDOWN_ALERT_MS
      [] OTHER -> 0

\* C3: after generate triggered a cue at a timestamp t > 0, a later call with the
\* same input values at a timestamp inside that cue's cooldown window (Vibration
\* 30 s, Thermal 2 min, Combined 3 min, Alert 10 min) returns triggered = false
\* with type NONE.
C3_CooldownSuppresses ==
    [][ ( /\ lastOp' = "generate"
          /\ cueObs.trig_ms > 0
          /\ [cueObs'.input EXCEPT !.timestamp_ms = 0] = cueObs.trig_input
          /\ now' > cueObs.trig_ms
          /\ now' - cueObs.trig_ms < CooldownWindow(cueObs.trig_type) )
        => ( ~cueOut'.ret /\ cueOut'.out.type = "NONE" ) ]_vars

\* C4: a cue that generate returns with triggered = true, of any type, has
\* thermal_intensity <= prefs.max_thermal_pct and vib_intensity <= prefs.max_vib_pct.
C4_UserMaxima ==
    (lastOp = "generate" /\ cueOut.ret)
    => /\ cueOut.out.thermal_intensity <= cue.prefs.max_thermal_pct
       /\ cueOut.out.vib_intensity <= cue.prefs.max_vib_pct

\* C5: with quiet window [start, end) the hour h is quiet iff
\* (start > end and (h >= start or h < end)) or (start <= end and start <= h < end);
\* a generate call made while h is quiet triggers nothing, whatever the input,
\* and one made while h is not quiet is never suppressed by the quiet-hours gate.
C5_QuietHours ==
    [][ lastOp' = "generate" =>
          LET h == cue.current_hour
              start == cue.prefs.quiet_start_hour
              end == cue.prefs.quiet_end_hour
              quiet == \/ start > end /\ (h >= start \/ h < end)
                       \/ start <= end /\ start <= h /\ h < end
          IN  /\ quiet => ( ~cueOut'.ret /\ cueOut'.out.type = "NONE" )
              /\ ~quiet => cueObs'.gate # "quiet" ]_vars

\* At hour 23 with window [22,7) the critical input was suppressed by the gate.
C5_Witness ==
    /\ lastOp = "generate" /\ cue.current_hour = 23
    /\ cue.prefs.quiet_start_hour = 22 /\ cue.prefs.quiet_end_hour = 7
    /\ [cueObs.input EXCEPT !.timestamp_ms = 0] = InAlert
    /\ ~cueOut.ret /\ cueObs.gate = "quiet"

\* Number of triggered cues with a timestamp in [from, to).
CuesIn(times, from, to) ==
    Cardinality({i \in DOMAIN times : times[i] >= from /\ times[i] < to})

\* C6 as claimed: in a run of generate calls no span of 3,600,000 ms holds more
\* than 12 triggered cues.
C6_RollingLimit ==
    \A i \in DOMAIN cueObs.times :
        CuesIn(cueObs.times, cueObs.times[i], cueObs.times[i] + CUE_HOUR_MS) <= CUE_MAX_PER_HOUR

\* C6 as the code has it: the cues are counted per window; a window begins at
\* hour_start_ms and the first generate call made 3,600,000 ms or more after
\* that begins the next one.  No window holds more than 12 triggered cues, a
\* call made in a window that holds 12 triggers nothing, and so no span of
\* 3,600,000 ms holds more than 24.
C6_WindowLimit ==
    [][ /\ CuesIn(cueObs'.times, cue'.hour_start_ms, now' + 1) <= CUE_MAX_PER_HOUR
        /\ \A i \in DOMAIN cueObs'.times :
              CuesIn(cueObs'.times, cueObs'.times[i], cueObs'.times[i] + CUE_HOUR_MS)
                 <= 2 * CUE_MAX_PER_HOUR
        /\ ( /\ lastOp' = "generate"
             /\ now' - cue.hour_start_ms < CUE_HOUR_MS
             /\ CuesIn(cueObs.times, cue.hour_start_ms, now + 1) = CUE_MAX_PER_HOUR )
           => ~cueOut'.ret ]_vars

\* A call found 12 cues in the current window and was suppressed by the limit.
C6_Witness ==
    /\ lastOp = "generate" /\ cueObs.gate = "rate" /\ ~cueOut.ret
    /\ CuesIn(cueObs.times, cue.hour_start_ms, now + 1) = CUE_MAX_PER_HOUR

(***************************************************************************)
(* Signature player                                                        *)
(***************************************************************************)
\* C9: signature_safe_vibration and signature_safe_thermal return
\* min(requested, 65) and min(requested, 70) for every requested in 0..255, so
\* applying one twice equals applying it once; and in every state reached by
\* play (any pattern, any scale), stop, stop_immediate and tick the player's
\* vibration output and what it hands the vibration driver are <= 65, its
\* thermal output and what it hands the thermal driver are <= 70.
C9_SafetyCeilings ==
    /\ sigObs.requested # -1 =>
          /\ sigObs.vib = Min(sigObs.requested, 65)
          /\ sigObs.thermal = Min(sigObs.requested, 70)
          /\ sigObs.vib_twice = sigObs.vib
          /\ sigObs.thermal_twice = sigObs.thermal
    /\ sig.vib_output <= 65
    /\ sig.thermal_output <= 70
    /\ vib.current_intensity <= 65
    /\ th.target_intensity <= 70
    /\ th.current_duty <= 70

\* A tick of FULL_RESET played at scale 255 (held to 100): the vibration step
\* that follows the warmth step starts from the warmth level, the highest
\* output the tables produce, and the driver runs at it.
C9_Witness ==
    /\ lastOp = "sig_tick"
    /\ sig.intensity_scale = 100
    /\ sig.vib_output = SIG_THERMAL_MEDIUM
    /\ vib.current_intensity = SIG_THERMAL_MEDIUM
    /\ vib.active

(***************************************************************************)
(* Thermal soft-start                                                      *)
(***************************************************************************)
\* C11: after an accepted set_timed the duty is 0 until the session's first
\* tick; a tick made while Ramping (and not ending in Fault) leaves the duty at
\* floor(target * elapsed / 2000), elapsed counted from the session's first
\* tick, not below the duty before it and not above the target, and leaves the
\* driver Active exactly when elapsed >= 2000 ms; whatever the timestamp of the
\* first tick.
C11_SoftStart ==
    [][ /\ (th'.state = "RAMPING" /\ thObs'.first_tick = -1) => th'.current_duty = 0
        /\ (lastOp' = "tick" /\ th.state = "RAMPING" /\ thermal_feature_is_active(th')) =>
              LET first == IF thObs.first_tick = -1 THEN now' ELSE thObs.first_tick
                  elapsed == now' - first
              IN  /\ th'.current_duty =
                        IF elapsed >= 2000 THEN th'.target_intensity
                        ELSE (th'.target_intensity * elapsed) \div 2000
                  /\ th'.current_duty >= th.current_duty
                  /\ th'.current_duty <= th'.target_intensity
                  /\ (th'.state = "ACTIVE") <=> (elapsed >= 2000) ]_vars

(***************************************************************************)
(* Actuator scheduler                                                      *)
(***************************************************************************)
\* what the interface documents as a valid command: intensity 0 or 5..100,
\* duration at most 60000 ms
CmdInRange(cmd) ==
    /\ cmd.intensity_pct <= 100
    /\ cmd.duration_ms <= 60000
    /\ (cmd.intensity_pct = 0 \/ cmd.intensity_pct >= 5)

\* C12: while a command is active, actuator_apply with a strictly lower
\* priority returns 0 and changes neither the scheduler's state (active
\* command, end time) nor either driver; with an equal or higher priority and
\* parameters in range it returns 1 and the command, stamped with the time of
\* the call, replaces the active one and sets the end time.
C12_PriorityArbitration ==
    [][ (lastOp' = "act_apply" /\ ctrl.active.type # "NONE") =>
          /\ ctrlObs'.cmd.priority < ctrl.active.priority =>
                /\ ctrlObs'.ret = 0
                /\ ctrl' = ctrl /\ th' = th /\ vib' = vib
          /\ (ctrlObs'.cmd.priority >= ctrl.active.priority /\ CmdInRange(ctrlObs'.cmd)) =>
                /\ ctrlObs'.ret = 1
                /\ ctrl'.active = [ctrlObs'.cmd EXCEPT !.timestamp_ms = now']
                /\ ctrl'.active_end_ms = now' + ctrlObs'.cmd.duration_ms ]_vars

\* A command in range was refused because a command of higher priority is active.
C12_Witness ==
    /\ lastOp = "act_apply" /\ ctrlObs.ret = 0 /\ CmdInRange(ctrlObs.cmd)
    /\ ctrl.active.type # "NONE"
    /\ ctrlObs.cmd.priority < ctrl.active.priority
    /\ (ctrl.thermal_running \/ ctrl.vibration_running)

\* C13 as stated: an active command stays active at every tick before
\* start + d, and the first tick at or after start + d stops both outputs and
\* clears it.
C13_Claimed ==
    [][ (lastOp' = "act_tick" /\ ctrl.active.type # "NONE") =>
          IF now' >= ctrl.active_end_ms
          THEN /\ ctrl'.active.type = "NONE"
               /\ ~thermal_feature_is_active(th') /\ th'.current_duty = 0
               /\ ~vib'.active /\ vib'.current_intensity = 0
          ELSE ctrl'.active = ctrl.active ]_vars

\* C13: a tick at or after start + d stops both outputs and clears the active
\* command; a tick before it clears the command exactly when it finds both
\* drivers idle and otherwise leaves it as it is; an active command ends at
\* most 60000 ms after it was accepted, and after a tick none is active at or
\* past its end time.
C13_Expiry ==
    [][ /\ (lastOp' = "act_tick" /\ ctrl.active.type # "NONE") =>
              IF now' >= ctrl.active_end_ms
              THEN /\ ctrl'.active.type = "NONE"
                   /\ ~thermal_feature_is_active(th') /\ th'.current_duty = 0
                   /\ ~vib'.active /\ vib'.current_intensity = 0
              ELSE IF ~ctrl'.thermal_running /\ ~ctrl'.vibration_running
                   THEN ctrl'.active = [ctrl.active EXCEPT !.type = "NONE"]
                   ELSE ctrl'.active = ctrl.active
        /\ ctrl'.active.type # "NONE" =>
              /\ ctrl'.active_end_ms = ctrl'.active.timestamp_ms + ctrl'.active.duration_ms
              /\ ctrl'.active.duration_ms <= 60000
              /\ lastOp' = "act_tick" => now' < ctrl'.active_end_ms ]_vars

\* A tick found a command at its end time with an output still running, and
\* ended it.
C13_Witness ==
    /\ lastOp = "act_tick" /\ ctrlObs.ended = "expired"
    /\ ctrl.active.type = "NONE" /\ ctrl.active.duration_ms > 0
    /\ now >= ctrl.active_end_ms
    /\ ~vib.active /\ ~thermal_feature_is_active(th)

\* C14 as stated: an intensity above 100 or a duration above 60000 ms is
\* accepted and clamped to 100 and 60000 ms.
C14_Claimed ==
    [][ ( /\ lastOp' = "act_apply"
          /\ actuator_apply_priority_ok(ctrl, ctrlObs'.cmd)
          /\ (ctrlObs'.cmd.intensity_pct > 100 \/ ctrlObs'.cmd.duration_ms > 60000) ) =>
          /\ ctrlObs'.ret = 1
          /\ ctrl'.active.intensity_pct = Min(ctrlObs'.cmd.intensity_pct, 100)
          /\ ctrl'.active.duration_ms = Min(ctrlObs'.cmd.duration_ms, 60000) ]_vars

\* C14: actuator_apply returns 0 and changes nothing when the intensity is
\* above 100, the duration is above 60000 ms, or the intensity is in 1..4;
\* every other command (intensity 0 included) that the priority test lets
\* through is accepted with its intensity and duration as given.
C14_Validation ==
    [][ lastOp' = "act_apply" =>
          /\ ~CmdInRange(ctrlObs'.cmd) =>
                /\ ctrlObs'.ret = 0
                /\ ctrl' = ctrl /\ th' = th /\ vib' = vib
          /\ (CmdInRange(ctrlObs'.cmd) /\ actuator_apply_priority_ok(ctrl, ctrlObs'.cmd)) =>
                /\ ctrlObs'.ret = 1
                /\ ctrl'.active.intensity_pct = ctrlObs'.cmd.intensity_pct
                /\ ctrl'.active.duration_ms = ctrlObs'.cmd.duration_ms ]_vars

\* A command of the highest priority with intensity 101 was refused while an
\* output was running.
C14_Witness ==
    /\ lastOp = "act_apply" /\ ctrlObs.ret = 0
    /\ ctrlObs.cmd.intensity_pct > 100
    /\ ctrlObs.cmd.priority = ACTUATOR_PRIORITY_ALERT
    /\ ctrl.vibration_running

C16_SampleCounters ==
    [][ /\ lastOp' = "process_rr" =>
              bio'.valid_samples = bio.valid_samples + (IF bioObs'.ret THEN 1 ELSE 0)
        /\ lastOp' # "bio_reset" => bio'.valid_samples >= bio.valid_samples
        /\ bio'.valid_samples <= bio'.total_samples ]_vars

\* A sample was rejected after two had been accepted.
C16_Witness ==
    /\ lastOp = "process_rr" /\ ~bioObs.ret
    /\ bio.valid_samples = 2 /\ bio.valid_samples <= bio.total_samples

C18_FollowsRateChange ==
    [][ ( /\ lastOp' = "process_rr"
          /\ bio.baseline_established
          /\ bio.last_rr_ms >= 780 /\ bio.last_rr_ms <= 820
          /\ bioObs'.rr = 500 ) =>
          /\ bioObs'.ret
          /\ bio'.last_rr_ms = 500
          /\ bio'.stress_score >= bio.stress_score ]_vars

(***************************************************************************)
(* Peak detector and RR ring buffer: claims                                *)
(***************************************************************************)
\* C19: wellness_process_sample returns nonzero exactly when the sample is
\* accepted as a peak and a peak was accepted before it; the value written to
\* out_rr_ms and pushed to the ring is then the timestamp difference to the
\* previous peak and exceeds 300 ms; on the first accepted peak the call
\* returns 0, writes nothing and pushes nothing.
C19_PeakOutput ==
    lastOp = "wp_sample" =>
        /\ (wpObs.ret # 0) <=> (wpObs.is_peak /\ wpObs.prev_peak_ts # -1)
        /\ wpObs.ret # 0 =>
              /\ wpObs.out = wpObs.ts - wpObs.prev_peak_ts
              /\ wpObs.out > REFRACTORY_MS
              /\ wpObs.pushed
              /\ wpObs.queue # <<>>
              /\ wpObs.queue[Len(wpObs.queue)] = wpObs.out
        /\ (wpObs.is_peak /\ wpObs.prev_peak_ts = -1) =>
              wpObs.ret = 0 /\ wpObs.out = -1 /\ ~wpObs.pushed

\* the values the ring holds, oldest first
RingContents ==
    [i \in 1..wp.g_rr_count |->
        wp.g_rr_buffer[((wp.g_rr_tail + i - 1) % RR_BUFFER_SIZE) + 1]]

\* C20: the ring never holds more than 32 values; its contents are the RR
\* values produced and not yet popped, in the order produced, where a push
\* onto a full ring has discarded the oldest; a pop returns the oldest stored
\* value and removes it, and returns 0 on an empty ring; and
\* head = (tail + count) mod 32 in every state.
C20_RRFifo ==
    /\ wp.g_rr_count <= RR_BUFFER_SIZE
    /\ wp.g_rr_head = (wp.g_rr_tail + wp.g_rr_count) % RR_BUFFER_SIZE
    /\ RingContents = wpObs.queue
    /\ (lastOp = "wp_sample" /\ wpObs.pushed) =>
          wpObs.queue = Append(IF Len(wpObs.before) = RR_BUFFER_SIZE
                               THEN Tail(wpObs.before) ELSE wpObs.before,
                               wpObs.out)
    /\ lastOp = "wp_pop" =>
          IF wpObs.before = <<>>
          THEN wpObs.ret = 0 /\ wpObs.out = -1 /\ wpObs.queue = <<>>
          ELSE /\ wpObs.ret = 1
               /\ wpObs.out = Head(wpObs.before)
               /\ wpObs.queue = Tail(wpObs.before)

\* a push onto the full ring has just discarded the oldest value
C20_Witness ==
    /\ lastOp = "wp_sample"
    /\ wpObs.dropped
    /\ wp.g_rr_count = RR_BUFFER_SIZE
    /\ wpObs.queue = Append(Tail(wpObs.before), wpObs.out)
    /\ Head(wpObs.before) # Head(wpObs.queue)

(***************************************************************************)
(* Cue engine: gates, streak, preferences, reset and history               *)
(***************************************************************************)
\* C21: a generate call made while the master switch is off, or while the
\* current hour is quiet, or while 12 cues are counted in the hour window that
\* holds the call's timestamp, returns false with type NONE, adds exactly 1 to
\* the suppressed counter and changes nothing else of the engine's state.
C21_EarlyGates ==
    [][ ( /\ lastOp' = "generate"
          /\ \/ ~cue.prefs.enabled
             \/ LET h == cue.current_hour
                    start == cue.prefs.quiet_start_hour
                    end == cue.prefs.quiet_end_hour
                IN  \/ start > end /\ (h >= start \/ h < end)
                    \/ start <= end /\ start <= h /\ h < end
             \/ /\ cue.cues_this_hour >= CUE_MAX_PER_HOUR
                /\ now' - cue.hour_start_ms < CUE_HOUR_MS )
        => ( /\ ~cueOut'.ret
             /\ cueOut'.out.type = "NONE"
             /\ cue' = [cue EXCEPT !.total_suppressed = cue.total_suppressed + 1] ) ]_vars

\* The master switch was off at a call made with cues counted in the window, a
\* cue time recorded and a low-confidence streak of 2: the call was suppressed.
C21_Witness ==
    /\ lastOp = "generate" /\ cueObs.gate = "master" /\ ~cueOut.ret
    /\ cue.consecutive_low_conf = 2
    /\ cue.cues_this_hour > 0 /\ cue.last_cue_ms > 0 /\ cue.history_count > 0
    /\ cue.total_suppressed >= 3

\* An input that passes the gates of an engine with preferences and hour as in
\* c and matches a rule of the cascade whose modality is enabled.
Qualifying(c, input) ==
    /\ c.prefs.enabled
    /\ ~is_quiet_hours(c)
    /\ input.confidence_pct >= 60
    /\ input.artifact_rate_pct <= 25
    /\ \/ input.stress_level > 90
       \/ input.micro_var_pct100 > 1200
       \/ input.coherence_pct < 30 /\ input.micro_var_pct100 > 500
       \/ input.stability_pct < 40 /\ c.prefs.breathing_enabled /\ c.prefs.vibration_enabled
       \/ input.micro_var_pct100 > 500 /\ c.prefs.vibration_enabled
       \/ input.coherence_pct < 50 /\ c.prefs.thermal_enabled

\* C29: cue_processor_reset sets the last-cue time to 0 and the type to NONE,
\* the hourly counter and the window start to 0, the low-confidence streak to 0
\* and the coherence history to empty and zeroed, and leaves the preferences as
\* they were; the first generate call after a reset, if its input qualifies,
\* triggers a cue whatever cooldown or hourly count was pending before the reset.
C29_Reset ==
    [][ /\ lastOp' = "reset" =>
              /\ cue'.last_cue_ms = 0 /\ cue'.last_cue_type = "NONE"
              /\ cue'.cues_this_hour = 0 /\ cue'.hour_start_ms = 0
              /\ cue'.consecutive_low_conf = 0
              /\ cue'.history_count = 0 /\ cue'.history_idx = 0
              /\ cue'.coherence_history = [i \in 1..CUE_HISTORY_SIZE |-> 0]
              /\ cue'.prefs = cue.prefs
        /\ ( lastOp = "reset" /\ lastOp' = "generate" /\ Qualifying(cue, cueObs'.input) )
              => ( cueOut'.ret /\ cueOut'.out.type # "NONE" ) ]_vars

\* Twelve cues 30 s apart filled the hourly window, the engine was reset, and
\* a critical input 10 s after the twelfth cue triggered an Alert.
C29_Witness ==
    /\ lastOp = "generate" /\ cueOut.ret /\ cueOut.out.type = "ALERT"
    /\ now = 370000
    /\ cue.total_generated = CUE_MAX_PER_HOUR + 1
    /\ cue.cues_this_hour = 1
    /\ cueObs.times = <<now>>

\* The parts of C22 that do not depend on the cooldown: on a call with
\* confidence < 60 a triggered cue is a CheckFit, the call is at least the
\* third consecutive low-confidence call, vibration is enabled and the streak is
\* 0 afterwards; a call that is not triggered returns type NONE and is counted
\* as suppressed; a call that reaches the confidence gate with confidence >= 60
\* leaves the streak at 0.
StreakRules ==
    /\ ( lastOp' = "generate" /\ cueObs'.input.confidence_pct < 60 ) =>
          /\ cueOut'.ret =>
                /\ cueOut'.out.type = "CHECK_FIT"
                /\ cueObs.streak + 1 >= 3
                /\ cue.prefs.vibration_enabled
                /\ cue'.consecutive_low_conf = 0
          /\ ~cueOut'.ret =>
                /\ cueOut'.out.type = "NONE"
                /\ cue'.total_suppressed = cue.total_suppressed + 1
    /\ ( /\ lastOp' = "generate" /\ cueObs'.input.confidence_pct >= 60
         /\ cueObs'.gate \notin EarlyGates ) =>
          cue'.consecutive_low_conf = 0

C23_ThermalDisabled ==
    ( lastOp = "generate" /\ cueOut.ret /\ ~cue.prefs.thermal_enabled )
    => cueOut.out.thermal_intensity = 0

\* C27: the stored preferences are within their bounds in every state:
\* sensitivity in 0..2, both quiet hours <= 23, both maxima <= 100; and every
\* cue is built from one of the three rows of the profile table.
C27_PrefsInBounds ==
    /\ cue.prefs.sensitivity \in 0..2
    /\ cue.prefs.quiet_start_hour <= 23
    /\ cue.prefs.quiet_end_hour <= 23
    /\ cue.prefs.max_thermal_pct <= 100
    /\ cue.prefs.max_vib_pct <= 100
    /\ PROFILES(cue.prefs.sensitivity) \in {PROFILES(0), PROFILES(1), PROFILES(2)}

\* C30: generate appends coherence_pct to the history on the calls that reach
\* the confidence gate with confidence >= 60, and a call with confidence < 60
\* leaves the history's contents, index and count as they were.
C30_HistoryPastConfidence ==
    [][ lastOp' = "generate" =>
          IF cueObs'.gate \notin EarlyGates /\ cueObs'.input.confidence_pct >= 60
          THEN /\ cue'.coherence_history =
                     [cue.coherence_history EXCEPT ![cue.history_idx + 1] =
                                                        cueObs'.input.coherence_pct]
               /\ cue'.history_idx = (cue.history_idx + 1) % CUE_HISTORY_SIZE
               /\ cue'.history_count = Min(cue.history_count + 1, CUE_HISTORY_SIZE)
          ELSE /\ cue'.coherence_history = cue.coherence_history
               /\ cue'.history_idx = cue.history_idx
               /\ cue'.history_count = cue.history_count ]_vars

(***************************************************************************)
(* Signature player: emergency stop and graceful stop                      *)
(***************************************************************************)

\* C26: signature_stop_immediate(), called on an idle, a playing or a fading
\* player, returns with both channel outputs 0, both drivers off, the current
\* pattern NONE and the player not fading, so that signature_is_playing() is
\* false; and every tick from then until a pattern is played leaves the
\* player and both drivers' outputs as they are.
C26_StopImmediate ==
    [][ /\ lastOp' = "sig_stop_immediate" =>
              /\ sig'.vib_output = 0 /\ sig'.thermal_output = 0
              /\ sig'.current_pattern = SIG_PATTERN_NONE
              /\ ~sig'.fading_out
              /\ ~signature_is_playing([sig |-> sig'])
              /\ ~vib'.active
              /\ ~thermal_feature_is_active(th')
        /\ ( sigObs.dead /\ lastOp' = "sig_tick" ) =>
              /\ sig' = sig
              /\ vib' = vib
              /\ th' = th ]_vars

\* stop_immediate() has cut a fade that still drove a channel.
C26_Witness ==
    /\ lastOp = "sig_stop_immediate"
    /\ sigObs.killed.mode = "fading"
    /\ sigObs.killed.out > 0
    /\ sig.vib_output = 0 /\ sig.thermal_output = 0
    /\ sig.current_pattern = SIG_PATTERN_NONE

\* The player has been ticked after a stop_immediate().
C26_WitnessTick ==
    /\ lastOp = "sig_tick"
    /\ sigObs.dead
    /\ sig.current_pattern = SIG_PATTERN_NONE

\* On a player that was initialised (one on which a pattern was ever played),
\* stop() and play() of a pattern id that is NONE or past the table do the
\* same to the player and the drivers. (On a player never initialised, such a
\* play() initialises it and stop() does nothing.)
PlayOfNoPatternIsStop ==
    sig.initialized =>
        \A p \in {SIG_PATTERN_NONE, SIG_PATTERN_COUNT, SIG_PATTERN_COUNT + 1} :
            \A s \in {0, 100, 255} :
                signature_play(World, p, s) = signature_stop(World)

\* stop() (or play() of no pattern) on a playing pattern: the player fades and
\* the outputs and the drivers are as before; a tick of a fading player raises
\* neither output, and neither is above its value at stop time.
FadeStartsAndFalls ==
    /\ ( /\ lastOp' = "sig_stop" \/ (lastOp' = "sig_play" /\ SigMode(sig') # "playing")
         /\ sig.initialized /\ SigMode(sig) = "playing" ) =>
           /\ SigMode(sig') = "fading"
           /\ sig'.vib_output = sig.vib_output
           /\ sig'.thermal_output = sig.thermal_output
           /\ vib' = vib /\ th' = th
    /\ ( lastOp' = "sig_tick" /\ SigMode(sig) = "fading" ) =>
           /\ sig'.vib_output <= sig.vib_output
           /\ sig'.thermal_output <= sig.thermal_output
           /\ sig'.vib_output <= sig.fade_from_vib
           /\ sig'.thermal_output <= sig.fade_from_thermal

FadeOver == SigMode(sig') = "idle" /\ sig'.vib_output = 0 /\ sig'.thermal_output = 0

\* C25: stop() on a playing pattern starts the fade and leaves the outputs as
\* they are; during the fade neither output rises; play() of a pattern id NONE
\* or out of range is this stop; and at the first tick 600 ms or more after
\* the first tick that followed the stop the player is idle with both outputs
\* 0, if no pattern was played in between.
C25_Claimed ==
    [][ /\ PlayOfNoPatternIsStop
        /\ FadeStartsAndFalls
        /\ ( /\ lastOp' = "sig_tick"
             /\ sigObs.fade_tick0 >= 0
             /\ now' - sigObs.fade_tick0 >= SIG_RAMP_DOWN_MS ) => FadeOver ]_vars

\* What the player does: the same, with the fade over 600 ms after its first
\* tick if that tick had a timestamp other than 0 and stop() was not called
\* again after it.
C25_Fade ==
    [][ /\ PlayOfNoPatternIsStop
        /\ FadeStartsAndFalls
        /\ ( /\ lastOp' = "sig_tick"
             /\ sigObs.fade_tick0 > 0
             /\ ~sigObs.restop
             /\ now' - sigObs.fade_tick0 >= SIG_RAMP_DOWN_MS ) => FadeOver ]_vars

\* A fade of both channels has ended at the tick 600 ms after its first one.
C25_Witness ==
    /\ lastOp = "sig_tick"
    /\ sigObs.fade_tick0 > 0
    /\ now - sigObs.fade_tick0 = SIG_RAMP_DOWN_MS
    /\ SigMode(sig) = "idle"
    /\ sig.fade_from_vib > 0 /\ sig.fade_from_thermal > 0

\* A fade whose first tick had timestamp 0 is still running 600 ms later.
C25_FadeFromZero ==
    /\ lastOp = "sig_tick"
    /\ sigObs.fade_tick0 = 0 /\ ~sigObs.restop
    /\ now >= SIG_RAMP_DOWN_MS
    /\ SigMode(sig) = "fading"

\* A fade that a second stop() restarted still drives a channel 600 ms after
\* its first tick.
C25_FadeRestarted ==
    /\ lastOp = "sig_tick"
    /\ sigObs.fade_tick0 > 0 /\ sigObs.restop
    /\ now - sigObs.fade_tick0 >= SIG_RAMP_DOWN_MS
    /\ SigMode(sig) = "fading"
    /\ sig.vib_output + sig.thermal_output > 0

(***************************************************************************)
(* Cue to signature: the pattern of a cue                                  *)
(***************************************************************************)
PatternOf(type, priority) ==
    cue_to_signature_pattern(CuePtr([type |-> type, priority |-> priority,
                                     vib_intensity |-> 30, thermal_intensity |-> 20]))

MinOf(S) == CHOOSE x \in S : \A y \in S : x <= y

\* C24: for a cue of a type other than NONE, cue_to_signature_pattern returns
\* the pattern of the first table entry with the cue's type and priority; if
\* there is none, the pattern of the first entry with the cue's type; if
\* there is none either, the default of the type's category. For a null cue
\* and for type NONE it returns SIG_PATTERN_NONE. (Combined, Alert) gives
\* FullReset, (Combined, High) Heartbeat, (Thermal, Alert) SafetyEmbrace,
\* (Vibration, Normal) AttentionTap, (Thermal, Normal) WarmExhale,
\* (Vibration, Low) GroundingPulse, (Thermal, Low) GroundingWarmth,
\* (CheckFit, Low) PresenceCheck and (Breathing, Normal) BreathingGuide.
C24_Mapping ==
    /\ sigObs.pattern # -1 =>
          LET both == { i \in DOMAIN MAPPINGS :
                          /\ MAPPINGS[i].cue_type = sigObs.cue_type
                          /\ MAPPINGS[i].priority = sigObs.cue_priority }
              typed == { i \in DOMAIN MAPPINGS : MAPPINGS[i].cue_type = sigObs.cue_type }
          IN  sigObs.pattern =
                 IF sigObs.cue_type \in {"NULL", "NONE"} THEN SIG_PATTERN_NONE
                 ELSE IF both # {} THEN MAPPINGS[MinOf(both)].pattern
                 ELSE IF typed # {} THEN MAPPINGS[MinOf(typed)].pattern
                 ELSE mapping_category_default(sigObs.cue_type)
    /\ PatternOf("COMBINED", "ALERT") = SIG_FULL_RESET
    /\ PatternOf("COMBINED", "HIGH") = SIG_HEARTBEAT
    /\ PatternOf("THERMAL", "ALERT") = SIG_SAFETY_EMBRACE
    /\ PatternOf("VIBRATION", "NORMAL") = SIG_ATTENTION_TAP
    /\ PatternOf("THERMAL", "NORMAL") = SIG_WARM_EXHALE
    /\ PatternOf("VIBRATION", "LOW") = SIG_GROUNDING_PULSE
    /\ PatternOf("THERMAL", "LOW") = SIG_GROUNDING_WARMTH
    /\ PatternOf("CHECK_FIT", "LOW") = SIG_PRESENCE_CHECK
    /\ PatternOf("BREATHING", "NORMAL") = SIG_BREATHING_GUIDE

\* A cue whose type is in the table with other priorities only was executed
\* and the pattern of the type's first entry is playing.
C24_Witness ==
    /\ lastOp = "cue_play"
    /\ sigObs.cue_type = "COMBINED" /\ sigObs.cue_priority = "LOW"
    /\ sigObs.pattern = SIG_FULL_RESET
    /\ sig.current_pattern = SIG_FULL_RESET

\* cues for which the lookup ends in each of its other ways
C24_WitnessExact ==
    /\ lastOp = "cue_play"
    /\ sigObs.cue_type = "ALERT" /\ sigObs.cue_priority = "NORMAL"
    /\ sigObs.pattern = SIG_GENTLE_ALERT

C24_WitnessNone ==
    /\ lastOp = "cue_ignored"
    /\ sigObs.cue_type \in {"NULL", "NONE", "OTHER"}
    /\ sigObs.pattern = SIG_PATTERN_NONE
    /\ nCalls = 2 /\ SigMode(sig) = "playing"

(***************************************************************************)
(* Biometric estimator: ranges of the metrics                              *)
(***************************************************************************)

\* C28: after reset and any sequence of biometrics_process_rr calls the
\* stress score is within [0, 1] (0..1000 thousandths) and the RMSSD, with
\* the smoothed squared difference under its root, is not negative.
C28_MetricRanges ==
    /\ bio.stress_score >= 0 /\ bio.stress_score <= 1000
    /\ bio.rmssd >= 0
    /\ bio.mean_diff_sq >= 0

\* An RMSSD of 1.5 times the baseline and more has taken the stress score to
\* 0 from above.
C28_Witness ==
    /\ lastOp = "process_rr" /\ bioObs.ret
    /\ bio.valid_samples > 2
    /\ bio.rmssd * 10 * 1000 >= 1500 * bio.baseline_rmssd
    /\ bio.stress_score < 500

\* An RMSSD of half the baseline puts the stress score at 1.
C28_WitnessMax ==
    /\ lastOp = "process_rr" /\ bioObs.ret
    /\ bio.rmssd > 0
    /\ bio.stress_score = 1000

(***************************************************************************)
(* Cue engine: cooldowns and the decision cascade                          *)
(***************************************************************************)
\* timestamps of the cues of one type triggered since the last reset
CueTimesOf(type) == { cueObs.times[i] : i \in { j \in DOMAIN cueObs.types : cueObs.types[j] = type } }

\* C31: an Alert cue is never emitted less than 600000 ms after an earlier
\* Alert cue (emitted since the last reset).
C31_Claimed ==
    [][ ( lastOp' = "generate" /\ cueOut'.ret /\ cueOut'.out.type = "ALERT" ) =>
          \A t \in CueTimesOf("ALERT") : now' - t >= CUE_COOLDOWN_ALERT_MS ]_vars

\* What the engine keeps: an Alert cue comes no less than half the combined
\* cooldown after any cue, and no less than the combined cooldown after a
\* cue that was the last one and an Alert or a Combined one.
C31_AlertGap ==
    [][ ( lastOp' = "generate" /\ cueOut'.ret /\ cueOut'.out.type = "ALERT"
          /\ cueObs.times # << >> ) =>
          LET n == Len(cueObs.times)
          IN  /\ now' - cueObs.times[n] >= CUE_COOLDOWN_COMBINED_MS \div 2
              /\ cueObs.types[n] \in {"ALERT", "COMBINED"} =>
                     now' - cueObs.times[n] >= CUE_COOLDOWN_COMBINED_MS ]_vars

\* Two Alert cues 180000 ms apart with no cue between them.
C31_SecondAlert ==
    /\ lastOp = "generate" /\ cueOut.ret /\ cueOut.out.type = "ALERT"
    /\ Len(cueObs.times) = 2
    /\ cueObs.types[1] = "ALERT"
    /\ cueObs.times[2] - cueObs.times[1] = CUE_COOLDOWN_COMBINED_MS
    /\ cueOut.out.cooldown_ms = CUE_COOLDOWN_ALERT_MS

\* the cue type the cascade's rules give an input when no cooldown holds a
\* rule back and the trend detector is silent
FirstMatch(input) ==
    IF input.stress_level > 90 \/ input.micro_var_pct100 > 1200 THEN "ALERT"
    ELSE IF input.coherence_pct < 30 /\ input.micro_var_pct100 > 500 THEN "COMBINED"
    ELSE IF input.stability_pct < 40 THEN "BREATHING"
    ELSE IF input.micro_var_pct100 > 500 THEN "VIBRATION"
    ELSE IF input.coherence_pct < 50 THEN "THERMAL"
    ELSE "NONE"

\* C32: the first call after init or reset, with every modality enabled,
\* outside the quiet hours, with confidence >= 60 and artifact rate <= 25,
\* returns the cue of the first rule its input matches in the order Alert,
\* Combined, Breathing, Vibration, Thermal, and returns false with type NONE
\* when it matches none.
C32_FirstMatch ==
    [][ ( /\ lastOp \in {"init", "reset"} /\ lastOp' = "generate"
          /\ cue.prefs.enabled /\ ~is_quiet_hours(cue)
          /\ cue.prefs.thermal_enabled /\ cue.prefs.vibration_enabled
          /\ cue.prefs.breathing_enabled
          /\ cueObs'.input.confidence_pct >= 60
          /\ cueObs'.input.artifact_rate_pct <= 25 ) =>
          /\ cueOut'.out.type = FirstMatch(cueObs'.input)
          /\ cueOut'.ret = (FirstMatch(cueObs'.input) # "NONE") ]_vars

\* After a reset that followed a cue, an input that is unstable, has an
\* elevated micro-variability and a medium coherence gets the Breathing cue.
C32_Witness ==
    /\ lastOp = "generate" /\ nCalls = 2
    /\ cue.total_generated = 2 /\ Len(cueObs.times) = 1
    /\ cueObs.input.stability_pct = 39 /\ cueObs.input.micro_var_pct100 = 501
    /\ cueObs.input.coherence_pct = 49 /\ cueObs.input.stress_level = 90
    /\ cueOut.ret /\ cueOut.out.type = "BREATHING"

\* the type under which the engine records a cue of a given output type
RecordedAs(type) ==
    CASE type = "ALERT" -> "COMBINED"
      [] type \in {"BREATHING", "CHECK_FIT"} -> "VIBRATION"
      [] OTHER -> type

\* The cooldown rule, on the cues triggered since the last reset: a rule of
\* type T with cooldown C may fire at time t.
CooldownAllows(T, C, t) ==
    \/ cueObs.times = << >>
    \/ LET n == Len(cueObs.times)
           elapsed == t - cueObs.times[n]
       IN  IF RecordedAs(cueObs.types[n]) \in {T, "COMBINED"}
           THEN elapsed >= C
           ELSE elapsed >= C \div 2

\* The rule that decides a call which reaches the cascade at time t: the
\* first one whose condition holds and which the cooldown rule allows.
CascadeRule(input, prefs, trend, t) ==
    IF /\ input.stress_level > 90 \/ input.micro_var_pct100 > 1200
       /\ CooldownAllows("COMBINED", 180000, t) THEN "alert"
    ELSE IF /\ input.coherence_pct < 30 /\ input.micro_var_pct100 > 500
            /\ CooldownAllows("COMBINED", 180000, t) THEN "combined"
    ELSE IF /\ input.stability_pct < 40
            /\ prefs.breathing_enabled /\ prefs.vibration_enabled
            /\ CooldownAllows("VIBRATION", 180000, t) THEN "breathing"
    ELSE IF /\ input.micro_var_pct100 > 500 /\ prefs.vibration_enabled
            /\ CooldownAllows("VIBRATION", 30000, t) THEN "vibration"
    ELSE IF /\ input.coherence_pct < 50 /\ prefs.thermal_enabled
            /\ CooldownAllows("THERMAL", 120000, t) THEN "thermal"
    ELSE IF /\ trend /\ prefs.thermal_enabled
            /\ CooldownAllows("THERMAL", 240000, t) THEN "preventive"
    ELSE "none"

CascadeRules == {"alert", "combined", "breathing", "vibration", "thermal", "preventive", "none"}

C37_HeldBack ==
    /\ lastOp = "generate" /\ ~cueOut.ret /\ cueObs.gate = "none"
    /\ cueObs.input = [InVibration EXCEPT !.timestamp_ms = now]
    /\ cueObs.types = <<"THERMAL">>
    /\ now - cueObs.times[1] = 14999

\* the coherence values in the engine's history, oldest first
HistorySamples(c) ==
    [ i \in 1..c.history_count |->
        c.coherence_history[((c.history_idx + CUE_HISTORY_SIZE - c.history_count + i - 1)
                                % CUE_HISTORY_SIZE) + 1] ]

RECURSIVE SumSeq(_)
SumSeq(q) == IF q = << >> THEN 0 ELSE Head(q) + SumSeq(Tail(q))

\* at least 6 samples, and the average of the first half above that of the
\* second half by more than a tenth of itself (averages in whole percent)
Deteriorating(q) ==
    /\ Len(q) >= 6
    /\ LET half == Len(q) \div 2
           first == SumSeq(SubSeq(q, 1, half)) \div half
           second == SumSeq(SubSeq(q, half + 1, Len(q))) \div (Len(q) - half)
       IN  first > second /\ first - second > first \div 10

\* the input matches none of the rules 1 to 5
NoHigherRule(input) == FirstMatch(input) = "NONE"

\* C33: with thermal enabled and an input that matches no higher rule, a
\* deteriorating trend triggers the Preventive thermal cue when there was no
\* Thermal cue before or 180000 ms have passed since the last one; and the
\* Preventive cue never comes with fewer than 6 history samples.
C33_Claimed ==
    [][ ( lastOp' = "generate" /\ cueObs'.gate \in CascadeRules ) =>
          /\ ( /\ cue.prefs.thermal_enabled
               /\ NoHigherRule(cueObs'.input)
               /\ Deteriorating(HistorySamples(cue'))
               /\ \A t \in CueTimesOf("THERMAL") : now' - t >= 180000 )
             => ( cueObs'.gate = "preventive" /\ cueOut'.ret )
          /\ cueObs'.gate = "preventive" => cue'.history_count >= 6 ]_vars

\* What the engine does: the same with 240000 ms, twice the thermal cooldown
\* (the runs of SpecTrend have Thermal cues only).
C33_Preventive ==
    [][ ( lastOp' = "generate" /\ cueObs'.gate \in CascadeRules ) =>
          /\ ( /\ cue.prefs.thermal_enabled
               /\ NoHigherRule(cueObs'.input)
               /\ Deteriorating(HistorySamples(cue')) )
             => ( cueObs'.gate = "preventive" <=>
                    \A t \in CueTimesOf("THERMAL") :
                        now' - t >= 2 * CUE_COOLDOWN_THERMAL_MS )
          /\ cueObs'.gate = "preventive" =>
                /\ cue'.history_count >= 6
                /\ Deteriorating(HistorySamples(cue'))
                /\ cueOut'.out.cooldown_ms = 180000 ]_vars

\* The Preventive cue 240000 ms after a Thermal cue, on a trend that held a
\* minute earlier too.
C33_PreventiveAt4Min ==
    /\ lastOp = "generate" /\ cueObs.gate = "preventive"
    /\ cueObs.types = <<"THERMAL", "THERMAL">>
    /\ cueObs.times[2] - cueObs.times[1] = 240000

(***************************************************************************)
(* Thermal driver: runaway detection and the duty bound                    *)
(***************************************************************************)
\* A tick that puts the driver into the Fault state with the Runaway code.
RunawayEntered ==
    th.state # "FAULT" /\ th'.state = "FAULT" /\ th'.fault = "RUNAWAY"

\* C36 (as stated): a Runaway fault is raised only when the skin temperature
\* rose by more than 2 C within one second between consecutive samples of the
\* running session: the sample the reading is compared with was taken in the
\* running session and at most one second before.
C36_Claimed ==
    [][RunawayEntered =>
          /\ thObs.run_since # -1
          /\ th.prev_temp_ms >= thObs.run_since
          /\ now' - th.prev_temp_ms <= 1000]_vars

\* What the code does: the reading is compared with the last stored sample,
\* whenever that was taken, once at least one second has passed since.
C36_Runaway ==
    [][RunawayEntered =>
          /\ th.prev_temp_ms # 0
          /\ now' - th.prev_temp_ms >= 1000
          /\ th'.skin_temp_c - th.prev_temp_c > RUNAWAY_RATE_C_PER_S]_vars

\* A Runaway fault on the first tick of a session, against a sample that an
\* earlier session left behind more than 30 s before.
C36_StaleBaseline ==
    /\ th.state = "FAULT" /\ th.fault = "RUNAWAY"
    /\ lastOp = "tick" /\ thObs.pre_state = "RAMPING"
    /\ th.start_ms = now
    /\ now - th.prev_temp_ms > THERMAL_COOLDOWN_S * 1000

\* C40: the duty the thermal driver outputs never exceeds 80 %, and it is 0
\* whenever the driver is Off, in Cooldown or in Fault.
C40_DutyBound ==
    /\ th.current_duty <= THERMAL_MAX_INTENSITY_PCT
    /\ (th.state \in {"OFF", "COOLDOWN", "FAULT"} => th.current_duty = 0)

\* The burst pattern requested at intensity 255 has reached its second step
\* (90 % of the clamped 80).
C40_Witness ==
    /\ th.state = "ACTIVE" /\ th.pattern = 4 /\ th.step_index = 1
    /\ th.base_intensity = THERMAL_MAX_INTENSITY_PCT /\ th.current_duty = 72

\* An Active session at full duty was shut down by a fault.
C40_WitnessFault ==
    /\ th.state = "FAULT" /\ thObs.pre_state = "ACTIVE"
    /\ th.target_intensity = THERMAL_MAX_INTENSITY_PCT /\ th.current_duty = 0

(***************************************************************************)
(* Scheduler: requests over BLE and the autonomous feedback                *)
(***************************************************************************)
\* An actuator_apply_ble call that asks for heat.
BleThermalRequest ==
    /\ lastOp' = "act_apply_ble"
    /\ ctrlObs'.req.thermal_intensity > 0
    /\ ctrlObs'.req.thermal_duration_s \in 1..255

BleRejected == ctrlObs'.ret = 0 /\ ctrl' = ctrl /\ th' = th /\ vib' = vib

\* C39 (as stated): a request for heat of thermal_duration_s seconds either
\* starts a command that lasts thermal_duration_s * 1000 ms, at most 60000, or
\* is rejected with return value 0 and nothing changed.
C39_Claimed ==
    [][BleThermalRequest =>
          \/ /\ ctrlObs'.ret = 1
             /\ ctrl'.active.duration_ms = ctrlObs'.req.thermal_duration_s * 1000
             /\ ctrlObs'.req.thermal_duration_s * 1000 <= MAX_DURATION_MS
          \/ BleRejected]_vars

\* What the code does: the command lasts thermal_duration_s * 1000 modulo
\* 2^16 ms, and the 60000 ms limit is tested on that.
C39_Truncated ==
    [][BleThermalRequest =>
          LET ms == (ctrlObs'.req.thermal_duration_s * 1000) % 65536
          IN  IF ms <= MAX_DURATION_MS
              THEN ctrlObs'.ret = 1 /\ ctrl'.active.duration_ms = ms
                   /\ ctrl'.active_end_ms = now' + ms
              ELSE BleRejected]_vars

\* A request for 66 s was accepted as a command of 464 ms.
C39_Accepted66 ==
    /\ lastOp = "act_apply_ble" /\ ctrlObs.ret = 1
    /\ ctrlObs.req.thermal_duration_s = 66
    /\ ctrl.active.type = "THERMAL" /\ ctrl.active.duration_ms = 464

\* The autonomous feedback applied a cue that drives the vibration motor.
WmVibrationApplied ==
    /\ lastOp' = "wm_feedback" /\ cueOut'.ret /\ ctrlObs'.ret = 1
    /\ ctrlObs'.cmd.type \in {"VIBRATION", "COMBINED"}

\* C38 (as stated): the intensity handed to the vibration driver for a cue of
\* the engine is at most prefs.max_vib_pct, and at most 60 for a Combined
\* command.
C38_Claimed ==
    [][WmVibrationApplied =>
          /\ vib'.active
          /\ vib'.base_intensity <= cue.prefs.max_vib_pct
          /\ (ctrlObs'.cmd.type = "COMBINED" => vib'.base_intensity <= COMBINED_VIB_CAP)]_vars

\* What the code does: a vibration-only cue is played at its vib_intensity; a
\* cue with both outputs is played at its thermal intensity, capped at 60.
C38_Handed ==
    [][WmVibrationApplied =>
          /\ vib'.active
          /\ vib'.pattern = cueOut'.out.vib_pattern
          /\ vib'.base_intensity =
                IF ctrlObs'.cmd.type = "COMBINED"
                THEN Min(cueOut'.out.thermal_intensity, COMBINED_VIB_CAP)
                ELSE cueOut'.out.vib_intensity
          /\ cueOut'.out.vib_intensity <= cue.prefs.max_vib_pct
          /\ cueOut'.out.thermal_intensity <= cue.prefs.max_thermal_pct]_vars

\* A Combined cue with vib_intensity 30, the user's maximum, is played on the
\* motor at 40.
C38_OverMax ==
    /\ lastOp = "wm_feedback" /\ cueOut.ret /\ ctrlObs.ret = 1
    /\ cueOut.out.type = "COMBINED"
    /\ cue.prefs.max_vib_pct = 30 /\ cueOut.out.vib_intensity = 30
    /\ vib.active /\ vib.base_intensity = 40

(***************************************************************************)
(* Signature player: step boundaries and running a pattern to its end      *)
(***************************************************************************)
CurStep(sg) == SigSteps(sg.steps)[sg.step_index + 1]

\* The output of the channel that the current step of sg drives.
DrivenOutput(sg) ==
    IF CurStep(sg).is_vibration THEN sg.vib_output ELSE sg.thermal_output

\* A tick that moved a playing pattern to another step and left it playing.
StepAdvanced ==
    /\ lastOp' = "sig_tick"
    /\ SigMode(sig) = "playing" /\ SigMode(sig') = "playing"
    /\ sig'.step_index # sig.step_index

\* C34 (as stated): when the player advances to a next step, that step's
\* interpolation starts from the value that the channel it drives outputs.
C34_Claimed ==
    [][StepAdvanced => sig'.step_from_intensity = DrivenOutput(sig')]_vars

\* What the code does: the next step starts from the target of the step that
\* ended, which is what the channel of the ended step outputs; the two agree
\* when both steps drive the same channel.
C34_FromEndedStep ==
    [][StepAdvanced =>
          /\ sig'.step_from_intensity =
                (IF CurStep(sig).is_vibration THEN sig'.vib_output ELSE sig'.thermal_output)
          /\ (CurStep(sig').is_vibration = CurStep(sig).is_vibration =>
                sig'.step_from_intensity = DrivenOutput(sig'))]_vars

\* The gentle alert holds its warmth at 40 in its fourth step; half a second
\* into that step the heater is at 20.
C34_HoldDrops ==
    /\ SigMode(sig) = "playing" /\ sig.current_pattern = SIG_GENTLE_ALERT
    /\ sig.step_index = 3 /\ sig.step_from_intensity = 0
    /\ sig.thermal_output = 20

\* The index of the sentinel of a pattern's table.
SentinelIndex(pattern) == Len(SigSteps(pattern)) - 1

\* The one pattern that the spec has loop.
Looping(pattern) == pattern = SIG_BREATHING_GUIDE

\* One tick of a pattern that plays: it stays in its step or moves to the next
\* one; at the sentinel a looping pattern goes back to step 0 and stays
\* Playing, any other starts to fade out; nothing else ends Playing.
StepOrder ==
    (lastOp' = "sig_tick" /\ SigMode(sig) = "playing") =>
        /\ sig'.current_pattern = sig.current_pattern
        /\ \/ SigMode(sig') = "playing" /\ sig'.step_index = sig.step_index
           \/ /\ SigMode(sig') = "playing" /\ sig'.step_index = sig.step_index + 1
              /\ sig'.step_index < SentinelIndex(sig.current_pattern)
           \/ /\ Looping(sig.current_pattern)
              /\ sig.step_index + 1 = SentinelIndex(sig.current_pattern)
              /\ SigMode(sig') = "playing" /\ sig'.step_index = 0
           \/ /\ ~Looping(sig.current_pattern)
              /\ sig.step_index + 1 = SentinelIndex(sig.current_pattern)
              /\ SigMode(sig') = "fading"
              /\ sig'.step_index = SentinelIndex(sig.current_pattern)

IdleSilent ==
    /\ SigMode(sig) = "idle" /\ sig.vib_output = 0 /\ sig.thermal_output = 0
    /\ ~vib.active /\ ~thermal_feature_is_active(th)

\* C35: a pattern that is only ticked visits its steps in order; a
\* non-looping pattern reaches its sentinel, fades out by itself and ends
\* Idle with both outputs at 0; the looping breathing guide goes back to step
\* 0 and stays Playing.
C35_RunsThrough ==
    /\ [][StepOrder]_vars
    /\ [][(lastOp' = "sig_tick" /\ SigMode(sig) = "fading") =>
              (SigMode(sig') = "fading" \/ IdleSilent')]_vars
    /\ (SigMode(sig) = "playing" /\ ~Looping(sig.current_pattern)) ~> IdleSilent

\* The full reset has run through its 19 steps, faded out and ended Idle.
C35_Witness ==
    /\ lastOp = "sig_tick" /\ IdleSilent
    /\ sig.step_index = SentinelIndex(SIG_FULL_RESET) /\ sig.step_index = 19

\* The breathing guide is in its second lap.
C35_WitnessLoop ==
    /\ SigMode(sig) = "playing" /\ sig.current_pattern = SIG_BREATHING_GUIDE
    /\ sig.step_index = 0 /\ sig.step_from_intensity = 5 /\ now >= 10800

=============================================================================
